---- MODULE Spec2Model ----
(***************************************************************************)
(* Image-acquisition and allocation engine of the B-roll harvester.        *)
(*                                                                         *)
(*   broll_core.compute_keyword_image_targets   the Concept Allocator      *)
(*   broll_core.google_images_download          the Session Driver         *)
(*   unified_app.JobProcessor._download_images  batch harvest loop with    *)
(*                                              the Wikipedia fallback     *)
(*   srt_to_images.process_single_srt           command-line harvest loop  *)
(*   app.App.run_all                            desktop harvest loop       *)
(*                                                                         *)
(*   broll_core.load_settings / save_settings,                             *)
(*   unified_app.UnifiedApp._load_app_settings  the settings file          *)
(*   unified_app.JobProcessor.process_job       the stages of a batch job  *)
(*   broll_core.safe_folder_name                folder names               *)
(*   broll_core.extract_keywords, test_sanity   keyword extraction         *)
(*   unified_app.UnifiedApp._add_job            the jobs table             *)
(*   x/tinker_video_collector downloader, app   the video collector        *)
(*                                                                         *)
(* The specifications share the variables:                                 *)
(*   SpecAlloc     the allocator applied to every bounded configuration    *)
(*   SpecSession   one invocation of google_images_download                *)
(*   Spec          the three harvest loops driving sessions                *)
(*   SpecSettings  loading, editing and saving settings.json               *)
(*   SpecQueue     the job queue and the worker thread of the batch app    *)
(*   SpecJob       one batch job from QUEUED to DONE or ERROR              *)
(*   SpecFolder    safe_folder_name applied to bounded strings             *)
(*   SpecSanity    extract_keywords on the sanity test's text              *)
(*   SpecAddJob    the Add Job button and the jobs table of the batch app  *)
(*   SpecDownload  tinker_video_collector download_all on a list of links  *)
(*   SpecCollector the GO button and the workers of the collector window   *)
(* SpecSessionLive and SpecQueueLive are SpecSession and SpecQueue with    *)
(* the fairness of the steps that the code awaits.                         *)
(***************************************************************************)
EXTENDS Integers, Sequences, FiniteSets, Bags, TLC

VARIABLES
    settings,   \* the settings dict the running entry point reads
    items,      \* the input: a transcript as its sorted lemmas, a document, a string
    targets,    \* list of (keyword, images_needed) returned by the allocator
    run,        \* the harvest loop: entry point, position, locals
    job,        \* the batch app's Job: status and error
    sess,       \* the current google_images_download invocation
    disk,       \* the file system: settings.json and the image files
    app         \* the batch app: job queue, worker thread, jobs' contexts

vars == <<settings, items, targets, run, job, sess, disk, app>>

----------------------------------------------------------------------------
(* Bounds of the model.                                                    *)

AllocMaxKeywords == 4   \* max_keywords ranges over 1..AllocMaxKeywords
AllocMaxItems == 4      \* a transcript holds 0..AllocMaxItems distinct lemmas
AllocMaxPerKw == 3      \* images_per_keyword ranges over 1..AllocMaxPerKw
AllocMaxTotal == 6      \* max_total_images ranges over 1..AllocMaxTotal
AllocMaxMin == 5        \* min_images_per_srt ranges over 0..AllocMaxMin
MaxNeed == 3            \* a direct invocation asks for 0..MaxNeed images
MaxScrolls == 2         \* max_scrolls ranges over 1..MaxScrolls
MaxThumbs == 2          \* a scroll cycle finds 0..MaxThumbs thumbnails
MaxCands == 2           \* a detail pane holds 0..MaxCands candidate images
HMaxItems == 2          \* a harvested transcript yields 0..HMaxItems concepts
HMaxPer == 2            \* images per concept in a harvest: 1..HMaxPer
HMaxTotal == 2          \* max_total_images in a harvest: 1..HMaxTotal
HMaxMin == 1            \* min_images_per_srt in a harvest: 0..HMaxMin
HMaxScrolls == 1        \* max_scrolls_per_keyword in a harvest: 1..HMaxScrolls
HMaxThumbs == 1         \* thumbnails per scroll cycle in a harvest
MaxStamps == 2          \* a direct invocation is given 0..MaxStamps timestamps
MaxStart == 1           \* start_counter of a direct invocation: 0..MaxStart
HMaxStamps == 2         \* the transcript of a batch job has 0..HMaxStamps cues
MaxFileValue == 2       \* a number in settings.json ranges over 1..MaxFileValue
MaxJobs == 3            \* jobs added to the batch app
MaxJobSessions == 1     \* sessions of one job's harvest
MaxSaves == 1           \* Saves of the settings by the operator around a run

----------------------------------------------------------------------------
(* Small helpers.                                                          *)

Min(a, b) == IF a <= b THEN a ELSE b

Max(a, b) == IF a >= b THEN a ELSE b

RECURSIVE SumNeeds(_)
SumNeeds(ts) == IF ts = <<>> THEN 0 ELSE ts[1][2] + SumNeeds(Tail(ts))

\* Concept texts; a keyword is the sequence of its words.
ConceptNames ==
    <<"rome", "caesar", "gaul", "army", "empire", "senate", "legion", "forum">>

Keyword(k) == <<ConceptNames[k]>>

\* The qualifying lemmas of a transcript with n of them, most frequent first.
Transcript(n) == [k \in 1..n |-> Keyword(k)]

----------------------------------------------------------------------------
(* Concept Allocator: broll_core.compute_keyword_image_targets.            *)

\* The Python slice seq[:n]: the first n elements, and for a negative n all
\* but the last -n.
SliceTo(seq, n) ==
    SubSeq(seq, 1, IF n >= 0 THEN Min(Len(seq), n) ELSE Max(Len(seq) + n, 0))

\* extract_keywords returns items[:max_keywords] of the sorted lemma list.
extract_keywords(text, max_keywords) == SliceTo(text, max_keywords)

\* A mutant of the walk: the quota is not capped by the remaining budget.
AllocWalkUncapped(keywords, per_kw, remaining) ==
    [k \in 1..Len(keywords) |-> <<keywords[k], per_kw>>]

\* A mutant of the walk: it does not stop when the budget is used up, and
\* the concepts past that point get what is left, which is nothing.
AllocWalkNoStop(keywords, per_kw, remaining) ==
    [k \in 1..Len(keywords) |->
        <<keywords[k], Min(per_kw, Max(0, remaining - per_kw * (k - 1)))>>]

\* A mutant of the walk: a concept that cannot get the whole uniform quota
\* gets none, so the remainder of the budget is left unassigned.
AllocWalkDropPartial(keywords, per_kw, remaining) ==
    [k \in 1..Min(Len(keywords), remaining \div per_kw) |->
        <<keywords[k], per_kw>>]

\* The walk of lines 375-382: need = min(per_kw, remaining) while remaining > 0.
RECURSIVE AllocWalk(_, _, _)
AllocWalk(keywords, per_kw, remaining) ==
    IF keywords = <<>> \/ remaining <= 0
    THEN <<>>
    ELSE LET need == Min(per_kw, remaining)
         IN  <<  <<Head(keywords), need>>  >>
                 \o AllocWalk(Tail(keywords), per_kw, remaining - need)

\* A mutant of the uniform quota: the soft minimum is left out.
PerKeywordQuotaNoMinimum(n, s) ==
    LET total_if_default == s.images_per_keyword * n
        target_total == Min(total_if_default, s.max_total_images)
        per_kw == Max(1, (target_total + n - 1) \div n)
    IN  Min(per_kw, s.max_total_images)

\* A mutant of the uniform quota: the division rounds down.
PerKeywordQuotaFloor(n, s) ==
    LET total_if_default == s.images_per_keyword * n
        target_total == Max(s.min_images_per_srt,
                            Min(total_if_default, s.max_total_images))
        per_kw == Max(1, target_total \div n)
    IN  Min(per_kw, s.max_total_images)

\* Lines 367-373: the uniform quota per keyword.
PerKeywordQuota(n, s) ==
    LET total_if_default == s.images_per_keyword * n
        target_total == Max(s.min_images_per_srt,
                            Min(total_if_default, s.max_total_images))
        per_kw == Max(1, (target_total + n - 1) \div n)
    IN  Min(per_kw, s.max_total_images)

compute_keyword_image_targets(text, s) ==
    LET keywords == extract_keywords(text, s.max_keywords)
    IN  IF keywords = <<>>
        THEN <<>>
        ELSE AllocWalk(keywords, PerKeywordQuota(Len(keywords), s),
                       s.max_total_images)

----------------------------------------------------------------------------
(* Idle values of the parts a specification does not exercise.             *)

NoSession ==
    [pc |-> "idle", keyword |-> <<>>, out_dir |-> <<>>, images_needed |-> 0,
     max_scrolls |-> 0,
     pw |-> "none", ctx |-> "none", search_input |-> "none",
     filled |-> FALSE,
     scroll_i |-> 0, nthumbs |-> 0, idx |-> 0, seen |-> {}, saved |-> 0,
     written |-> <<>>, requested |-> EmptyBag,
     url |-> "none", error |-> "none",
     timestamp_based_naming |-> FALSE, timestamps |-> <<>>,
     start_counter |-> 0,
     response |-> [raised |-> FALSE, status_code |-> 0, length |-> 0]]

NoJob ==
    [status |-> "none", error |-> "none", platform |-> "none",
     started_at |-> "none", completed_at |-> "none"]

\* A dict without keys.
EmptyDict == [k \in {} |-> 0]

\* No settings.json and no image file.
NoDisk == [settings_json |->
              [exists |-> FALSE, parses |-> FALSE, data |-> EmptyDict],
           files |-> {}]

\* The batch app before any job is added: the queue is empty and the worker
\* thread waits in job_queue.get.
NoApp ==
    [queue |-> <<>>, processing |-> {}, status |-> <<>>, ctx |-> <<>>,
     sessions |-> <<>>]

\* The keys of the settings dicts that the modelled code reads.  A key an
\* entry point never reads is held at 0.
AllocSettings ==
    [max_keywords : 1..AllocMaxKeywords,
     images_per_keyword : 1..AllocMaxPerKw,
     max_total_images : 1..AllocMaxTotal,
     min_images_per_srt : 0..AllocMaxMin,
     max_scrolls_per_keyword : {0},
     images_per_concept : {0},
     max_concepts_per_srt : {0}]

\* The two configurations the documentation works out: the defaults of
\* DEFAULT_SETTINGS with max_keywords 5, and a budget of 10 under them with
\* 4 images per keyword.
AllocExamples ==
    {[max_keywords |-> 5, images_per_keyword |-> 3, max_total_images |-> 60,
      min_images_per_srt |-> 20, max_scrolls_per_keyword |-> 0,
      images_per_concept |-> 0, max_concepts_per_srt |-> 0],
     [max_keywords |-> 5, images_per_keyword |-> 4, max_total_images |-> 10,
      min_images_per_srt |-> 20, max_scrolls_per_keyword |-> 0,
      images_per_concept |-> 0, max_concepts_per_srt |-> 0]}

\* What a harvest loop hands to its status collaborator: set_status of the
\* desktop app, log of the command line, job.progress and the status callback
\* of the batch app.  n is the count the message gives, total the running
\* total when the message gives one.
Report(kind, concept, n, total) ==
    [kind |-> kind, concept |-> concept, n |-> n, total |-> total]

NoBudget ==
    [images_per_concept |-> 0, max_total_images |-> 0,
     max_scrolls_per_keyword |-> 0]

NoRun ==
    [app |-> "none", pc |-> "none", i |-> 0, total |-> 0, need |-> 0,
     saved |-> 0, sessions |-> 0, timestamps |-> <<>>,
     original |-> "none", first |-> EmptyDict, app2 |-> EmptyDict,
     reported |-> Report("none", <<>>, 0, 0),
     budget |-> NoBudget,
     primary_urls |-> {},
     ui |-> "idle", new_settings |-> EmptyDict, nsaves |-> 0]

\* Start times of cues, as the names of image files carry them (HH-MM-SS).
Stamps == <<"00-00-01", "00-00-04", "00-00-09", "00-00-12">>

\* The lists of up to n timestamps, up to the choice of the values: each
\* entry repeats an earlier entry or is the next of Stamps.  The `timestamps`
\* argument of google_images_download is any list of strings, and two cues
\* that start in the same second have the same timestamp.
TimestampLists(n) ==
    LET NewOrSeen(ix) ==
            \A k \in DOMAIN ix :
               \/ ix[k] = 1
               \/ \E j \in 1..(k - 1) : ix[j] >= ix[k] - 1
        shapes == {ix \in UNION {[1..k -> 1..n] : k \in 0..n} :
                      NewOrSeen(ix)}
    IN  {[k \in DOMAIN ix |-> Stamps[ix[k]]] : ix \in shapes}

----------------------------------------------------------------------------
(* SpecAlloc: the allocator on every bounded BudgetConfig and transcript.  *)

AllocInit ==
    /\ settings \in AllocSettings \cup AllocExamples
    /\ items \in {Transcript(n) : n \in 0..AllocMaxItems} \cup {Transcript(5)}
    /\ targets = <<>>
    /\ run = [NoRun EXCEPT !.app = "alloc", !.pc = "plan"]
    /\ job = NoJob
    /\ sess = NoSession
    /\ disk = NoDisk
    /\ app = NoApp

\* One call of compute_keyword_image_targets(text, settings).
ComputeTargets ==
    /\ run.app = "alloc"
    /\ run.pc = "plan"
    /\ targets' = compute_keyword_image_targets(items, settings)
    /\ run' = [run EXCEPT !.pc = "planned"]
    /\ UNCHANGED <<settings, items, job, sess, disk, app>>

AllocNext == ComputeTargets

SpecAlloc == AllocInit /\ [][AllocNext]_vars

----------------------------------------------------------------------------
(* C1: the sum of images_needed over the list the allocator returns never  *)
(* exceeds max_total_images, for every BudgetConfig and every number of    *)
(* extracted concepts.                                                     *)
C1_AllocatorBudget ==
    run.pc = "planned" => SumNeeds(targets) <= settings.max_total_images

\* The cap is what bounds the sum: more was wanted than the budget allows.
C1_Witness ==
    /\ run.pc = "planned"
    /\ Len(targets) >= 2
    /\ Len(targets) < Len(extract_keywords(items, settings.max_keywords))
    /\ SumNeeds(targets) = settings.max_total_images
    /\ targets[Len(targets)][2] < targets[1][2]

(* The allocator as the documentation states it, for n extracted concepts. *)
RefConcepts == Min(Len(items), settings.max_keywords)

RefCeilDiv(a, b) == (a \div b) + (IF a % b = 0 THEN 0 ELSE 1)

RefTargetTotal ==
    LET naive == settings.images_per_keyword * RefConcepts
        capped == IF naive <= settings.max_total_images
                  THEN naive ELSE settings.max_total_images
    IN  IF capped >= settings.min_images_per_srt
        THEN capped ELSE settings.min_images_per_srt

RefUniform ==
    LET u == RefCeilDiv(RefTargetTotal, RefConcepts)
    IN  IF u <= settings.max_total_images THEN u ELSE settings.max_total_images

\* What is left of the budget when concept k is reached.
RefRemaining(k) == settings.max_total_images - RefUniform * (k - 1)

RefQuotas ==
    LET len == Cardinality({k \in 1..RefConcepts : RefRemaining(k) > 0})
    IN  [k \in 1..len |->
            <<items[k], IF RefUniform <= RefRemaining(k)
                        THEN RefUniform ELSE RefRemaining(k)>>]

(* C17: every pair the allocator returns has images_needed >= 1, and the   *)
(* returned concepts are a prefix, in extraction order, of the extracted   *)
(* concepts: concepts are dropped only from the point where the budget is  *)
(* used up.                                                                *)
C17_QuotaShape ==
    run.pc = "planned"
       => /\ Len(targets) <= RefConcepts
          /\ \A k \in 1..Len(targets) :
                 targets[k][1] = items[k] /\ targets[k][2] >= 1
          /\ Len(targets) < RefConcepts
                => SumNeeds(targets) = settings.max_total_images

\* Concepts were dropped, and the last one kept got a single image.
C17_Witness ==
    /\ run.pc = "planned"
    /\ Len(targets) >= 2
    /\ Len(targets) + 2 <= RefConcepts
    /\ targets[1][2] >= 2
    /\ targets[Len(targets)][2] = 1

(* C18: for n >= 1 extracted concepts the allocator returns the quotas of  *)
(* the documented algorithm: target total max(min_images_per_srt,          *)
(* min(images_per_keyword * n, max_total_images)), uniform quota           *)
(* min(ceil(target / n), max_total_images), walked in order against the    *)
(* remaining budget; with 5 concepts, 3 images per keyword, a budget of 60 *)
(* and a minimum of 20 that is five quotas of 4.                           *)
C18_MatchesAlgorithm ==
    (run.pc = "planned" /\ RefConcepts >= 1)
       => /\ targets = RefQuotas
          /\ ( /\ Len(items) = 5
               /\ settings.max_keywords = 5
               /\ settings.images_per_keyword = 3
               /\ settings.max_total_images = 60
               /\ settings.min_images_per_srt = 20 )
             => targets = [k \in 1..5 |-> <<items[k], 4>>]

\* The documented example has been computed.
C18_Witness ==
    /\ run.pc = "planned"
    /\ settings.max_total_images = 60
    /\ settings.min_images_per_srt = 20
    /\ Len(targets) = 5
    /\ SumNeeds(targets) = 20

(* C19: when the uniform quota times the number of concepts exceeds        *)
(* max_total_images, the quotas sum to exactly max_total_images, every     *)
(* quota but the last is the uniform quota, the last is the remainder and  *)
(* the concepts after it are dropped; a budget of 10 with five concepts    *)
(* wanting 4 each gives 4, 4, 2.                                           *)
C19_CapEnforcement ==
    ( /\ run.pc = "planned"
      /\ RefConcepts >= 1
      /\ RefUniform * RefConcepts > settings.max_total_images )
       => /\ SumNeeds(targets) = settings.max_total_images
          /\ Len(targets) >= 1
          /\ Len(targets) <= RefConcepts
          /\ \A k \in 1..(Len(targets) - 1) : targets[k][2] = RefUniform
          /\ targets[Len(targets)][2]
                = settings.max_total_images - RefUniform * (Len(targets) - 1)
          /\ ( /\ Len(items) = 5
               /\ settings.max_keywords = 5
               /\ settings.max_total_images = 10
               /\ RefUniform = 4 )
             => targets = <<  <<items[1], 4>>, <<items[2], 4>>, <<items[3], 2>>  >>

\* The documented example: 4, 4 and the remainder 2, two concepts dropped.
C19_Witness ==
    /\ run.pc = "planned"
    /\ Len(items) = 5
    /\ settings.max_total_images = 10
    /\ Len(targets) = 3
    /\ targets[3][2] = 2
    /\ targets[1][2] = 4

----------------------------------------------------------------------------
(* Session Driver: broll_core.google_images_download.                      *)

NumSearchSelectors == 6     \* search_selectors
NumThumbSelectors == 7      \* thumb_selectors
MinBodyBytes == 1000        \* a body must be longer than this to be saved

\* Values the src attribute of a detail-pane image can read as.
PlainUrls == {"http://site-a.example/1.jpg", "http://site-b.example/2.jpg"}

GstaticUrls == {"https://encrypted-tbn0.gstatic.com/images?q=1"}

NonHttpSrcs == {"data:image/gif;base64,R0lGOD"}

Urls == PlainUrls \cup GstaticUrls

\* "raise": get_attribute raised; "none": the attribute is absent or empty.
SrcReads == {"raise", "none"} \cup NonHttpSrcs \cup Urls

StartsWithHttp(src) == src \in Urls

HasGstatic(src) == src \in GstaticUrls

CandidateLists == UNION {[1..n -> SrcReads] : n \in 0..MaxCands}

\* What requests.get can produce: an exception, or a response.
FetchOutcomes ==
    [raised : {TRUE}, status_code : {0}, length : {0}]
    \cup [raised : {FALSE}, status_code : {200, 404},
          length : {MinBodyBytes, MinBodyBytes + 1}]

\* A mutant of the fetch test: a body of exactly the threshold passes.
FetchOkAtThreshold(r) ==
    ~r.raised /\ r.status_code = 200 /\ r.length >= MinBodyBytes

\* Line 313: r.status_code == 200 and len(r.content) > 1000.
FetchOk(r) == ~r.raised /\ r.status_code = 200 /\ r.length > MinBodyBytes

\* Lines 276-285 and 288-295: the first src read that is in `wanted`.
RECURSIVE FirstSrc(_, _)
FirstSrc(cands, wanted) ==
    IF cands = <<>> THEN "none"
    ELSE IF Head(cands) \in wanted
         THEN Head(cands)
         ELSE FirstSrc(Tail(cands), wanted)

\* Lines 275-295: prefer a non-gstatic http src, else any http src.
SelectUrl(cands) ==
    LET url == FirstSrc(cands, {c \in SrcReads \ {"raise", "none"} :
                                   StartsWithHttp(c) /\ ~HasGstatic(c)})
    IN  IF url # "none"
        THEN url
        ELSE FirstSrc(cands, {c \in SrcReads \ {"raise", "none"} :
                                 StartsWithHttp(c)})

\* What the selection can yield, over every content of the detail pane.
SelectableUrls == {SelectUrl(cands) : cands \in CandidateLists}

\* Function entry: the parameters are bound, nothing has run.  The naming
\* parameters keep their defaults (lines 149-151).
EnterSession(keyword, out_dir, images_needed, max_scrolls) ==
    [NoSession EXCEPT !.pc = "entry", !.keyword = keyword,
                      !.out_dir = out_dir,
                      !.images_needed = images_needed,
                      !.max_scrolls = max_scrolls]

\* Function entry with the naming parameters given.
EnterSessionNamed(keyword, out_dir, images_needed, max_scrolls, timestamp_based_naming, timestamps, start_counter) ==
    [EnterSession(keyword, out_dir, images_needed, max_scrolls)
        EXCEPT !.timestamp_based_naming = timestamp_based_naming,
               !.timestamps = timestamps,
               !.start_counter = start_counter]

\* The characters of the words that queries are made of.
WordChars ==
    [rome |-> <<"r", "o", "m", "e">>,
     caesar |-> <<"c", "a", "e", "s", "a", "r">>,
     gaul |-> <<"g", "a", "u", "l">>,
     army |-> <<"a", "r", "m", "y">>,
     empire |-> <<"e", "m", "p", "i", "r", "e">>,
     senate |-> <<"s", "e", "n", "a", "t", "e">>,
     legion |-> <<"l", "e", "g", "i", "o", "n">>,
     forum |-> <<"f", "o", "r", "u", "m">>,
     Wikipedia |-> <<"W", "i", "k", "i", "p", "e", "d", "i", "a">>,
     Massachusetts |-> <<"M", "a", "s", "s", "a", "c", "h", "u", "s", "e",
                         "t", "t", "s">>,
     Institute |-> <<"I", "n", "s", "t", "i", "t", "u", "t", "e">>,
     of |-> <<"o", "f">>,
     Technology |-> <<"T", "e", "c", "h", "n", "o", "l", "o", "g", "y">>]

\* The string of a keyword: its words joined by single spaces.
RECURSIVE Text(_)
Text(kw) ==
    IF kw = <<>> THEN <<>>
    ELSE IF Len(kw) = 1 THEN WordChars[kw[1]]
    ELSE WordChars[kw[1]] \o <<" ">> \o Text(Tail(kw))

StampedNameLimit == 30      \* line 304: [:30]
CounterNameLimit == 20      \* line 308: [:20]

\* Lines 304 and 308: keyword.replace(' ', '_').replace('/', '_')[:limit].
SafeKeyword(keyword, limit) ==
    LET text == Text(keyword)
        replaced == [k \in 1..Len(text) |->
                        IF text[k] \in {" ", "/"} THEN "_" ELSE text[k]]
    IN  SubSeq(replaced, 1, Min(limit, Len(replaced)))

DigitChars == <<"0", "1", "2", "3", "4", "5", "6", "7", "8", "9">>

\* The format :02d, for the counters below 100 that the model reaches.
Pad2(n) == <<DigitChars[(n \div 10) + 1], DigitChars[(n % 10) + 1]>>

\* Lines 302-309: the path of the file the next save writes.
FileName(s) ==
    IF /\ s.timestamp_based_naming
       /\ s.timestamps # <<>>
       /\ s.start_counter + s.saved < Len(s.timestamps)
    THEN [dir |-> s.out_dir,
          name |-> <<s.timestamps[s.start_counter + s.saved + 1], "_">>
                      \o SafeKeyword(s.keyword, StampedNameLimit)
                      \o <<".jpg">>]
    ELSE [dir |-> s.out_dir,
          name |-> SafeKeyword(s.keyword, CounterNameLimit)
                      \o <<"_">> \o Pad2(s.saved + 1) \o <<".jpg">>]

\* A mutant of the scope exit: the context outlives the Playwright scope.
ScopeExitLeak(s) == [s EXCEPT !.pw = "stopped"]

\* Line 158: leaving `async with async_playwright()` stops Playwright, which
\* shuts down every browser context it launched.
ScopeExit(s) ==
    [s EXCEPT !.pw = "stopped",
              !.ctx = IF @ = "open" THEN "closed" ELSE @]

\* An exception leaves the function through the `async with`.
Raise(s, error) == [ScopeExit(s) EXCEPT !.pc = "raised", !.error = error]

\* Lines 327-328: context.close(); return saved.
CloseAndReturn(s) ==
    [ScopeExit([s EXCEPT !.ctx = "closed"]) EXCEPT !.pc = "returned"]

\* A mutant of the dedup test: a seen URL is not rejected.
RejectedNoDedup(url, seen) == url = "none"

\* Line 297: `if not url or url in seen: continue`.
Rejected(url, seen) == url = "none" \/ url \in seen

\* A mutant of the quota test: one image too many is accepted.
QuotaMetLate(s) == s.saved > s.images_needed

\* Lines 247 and 320: `if saved >= images_needed: break`.
QuotaMet(s) == s.saved >= s.images_needed

\* A mutant: the query is filled before the missing input is noticed.
AfterSearchInputFillFirst(s, k) ==
    IF k = 0 THEN Raise([s EXCEPT !.filled = TRUE], "no_search_input")
    ELSE [s EXCEPT !.pc = "found", !.search_input = "element"]

\* Lines 203-204: `if not search_input: raise Exception(...)`.
AfterSearchInput(s, k) ==
    IF k = 0 THEN Raise(s, "no_search_input")
    ELSE [s EXCEPT !.pc = "found", !.search_input = "element"]

\* A mutant of the empty cycle: the session scrolls on and tries again.
NoThumbnailsScrollOn(s) == [s EXCEPT !.scroll_i = @ + 1]

\* Lines 242-244 and 327-328: no thumbnail, the scroll loop is left.
NoThumbnails(s) == CloseAndReturn(s)

\* The most thumbnails a cycle finds, by the specification that runs.
ThumbLimit == IF run.app = "direct" THEN MaxThumbs ELSE HMaxThumbs

\* Lines 154-182: ensure_dir, enter the Playwright scope, launch the
\* persistent context, open a page and navigate; the navigation can raise.
SessionOpen ==
    /\ sess.pc = "entry"
    /\ LET opened == [sess EXCEPT !.pw = "running", !.ctx = "open"]
       IN  \/ sess' = [opened EXCEPT !.pc = "open"]
           \/ sess' = Raise(opened, "navigation")
    /\ UNCHANGED <<settings, items, targets, run, job, disk, app>>

\* Lines 184-204: try the selectors in order; k is the first that matches
\* (0: every wait_for_selector timed out).
SessionFindInput ==
    /\ sess.pc = "open"
    /\ \E k \in 0..NumSearchSelectors : sess' = AfterSearchInput(sess, k)
    /\ UNCHANGED <<settings, items, targets, run, job, disk, app>>

\* A mutant of the session's bookkeeping: the set of seen URLs is shared by
\* the attempts of a concept instead of being made anew.
StartHarvestSharedSeen(s) ==
    [s EXCEPT !.pc = "cycle", !.seen = run.primary_urls, !.saved = 0,
              !.scroll_i = 0]

\* Lines 211-212 and 221: seen = set(), saved = 0, and the first scroll cycle.
StartHarvest(s) ==
    [s EXCEPT !.pc = "cycle", !.seen = {}, !.saved = 0, !.scroll_i = 0]

\* Lines 206-218: fill the query, press Enter, wait for network idle (which
\* can time out and raise), then seen = set(), saved = 0.
SessionSubmit ==
    /\ sess.pc = "found"
    /\ LET filled == [sess EXCEPT !.filled = TRUE]
       IN  \/ sess' = StartHarvest(filled)
           \/ sess' = Raise(filled, "load_state")
    /\ UNCHANGED <<settings, items, targets, run, job, disk, app>>

\* A mutant of the scroll loop: one cycle more than max_scrolls.
ScrollsLeftOneMore(s) == s.scroll_i <= s.max_scrolls

\* Line 221: `for scroll_i in range(max_scrolls)` has an iteration left.
ScrollsLeft(s) == s.scroll_i < s.max_scrolls

\* Line 221 with the loop exhausted: fall through to the teardown.
SessionScrollsExhausted ==
    /\ sess.pc = "cycle"
    /\ ~ScrollsLeft(sess)
    /\ sess' = CloseAndReturn(sess)
    /\ UNCHANGED <<settings, items, targets, run, job, disk, app>>

\* Lines 221-244: one more cycle; the thumbnail selectors are tried in
\* order (a raising one is skipped) and the first that yields elements wins.
\* k = 0: none yields any, the loop is left.
SessionCycle ==
    /\ sess.pc = "cycle"
    /\ ScrollsLeft(sess)
    /\ \E k \in 0..NumThumbSelectors, n \in 1..ThumbLimit :
          sess' = IF k = 0
                  THEN NoThumbnails(sess)
                  ELSE [sess EXCEPT !.pc = "thumb", !.nthumbs = n, !.idx = 0]
    /\ UNCHANGED <<settings, items, targets, run, job, disk, app>>

\* Lines 246-248 and 320-325: the thumbnails of the cycle are used up, or
\* the quota is met; leave the session or scroll and start the next cycle.
SessionCycleEnd ==
    /\ sess.pc = "thumb"
    /\ sess.idx >= sess.nthumbs \/ QuotaMet(sess)
    /\ sess' = IF QuotaMet(sess)
               THEN CloseAndReturn(sess)
               ELSE [sess EXCEPT !.pc = "cycle", !.scroll_i = @ + 1,
                                 !.nthumbs = 0, !.idx = 0]
    /\ UNCHANGED <<settings, items, targets, run, job, disk, app>>

\* Lines 250-256: click the thumbnail; a failed click skips it.
SessionClick ==
    /\ sess.pc = "thumb"
    /\ sess.idx < sess.nthumbs
    /\ ~QuotaMet(sess)
    /\ \/ sess' = [sess EXCEPT !.pc = "pane"]
       \/ sess' = [sess EXCEPT !.idx = @ + 1]
    /\ UNCHANGED <<settings, items, targets, run, job, disk, app>>

\* A mutant of the bookkeeping: the URL is not remembered.
RememberNothing(url, seen) == seen

\* Line 300: seen.add(url), before the fetch and whatever its outcome.
Remember(url, seen) == seen \cup {url}

\* Lines 270-274, no handler around them: query_selector_all raises.
SessionPaneLookupRaises ==
    /\ sess.pc = "pane"
    /\ sess' = Raise(sess, "detail_lookup")
    /\ UNCHANGED <<settings, items, targets, run, job, disk, app>>

\* Lines 270-300: read the candidates of the detail pane, pick the URL,
\* reject it if empty or seen, else remember it.
SessionPane ==
    /\ sess.pc = "pane"
    /\ \E url \in SelectableUrls :
          sess' = IF Rejected(url, sess.seen)
                  THEN [sess EXCEPT !.pc = "thumb", !.idx = @ + 1]
                  ELSE [sess EXCEPT !.pc = "fetch", !.url = url,
                                    !.seen = Remember(url, @)]
    /\ UNCHANGED <<settings, items, targets, run, job, disk, app>>

\* Lines 301-312: the file name is chosen and requests.get is called; it
\* returns a response or raises.  sess.requested counts the calls per URL.
SessionFetch ==
    /\ sess.pc = "fetch"
    /\ \E r \in FetchOutcomes :
          sess' = [sess EXCEPT !.pc = "fetched", !.response = r,
                               !.requested = @ (+) SetToBag({sess.url})]
    /\ UNCHANGED <<settings, items, targets, run, job, disk, app>>

\* Lines 313-318: the file is written and counted only for a 200 response
\* with a large enough body; any other outcome skips the candidate.
SessionStore ==
    /\ sess.pc = "fetched"
    /\ IF FetchOk(sess.response)
       THEN /\ disk' = [disk EXCEPT !.files = @ \cup {FileName(sess)}]
            /\ sess' = [sess EXCEPT !.pc = "thumb", !.idx = @ + 1,
                                    !.url = "none", !.saved = @ + 1,
                                    !.written = Append(@, sess.url),
                                    !.response = NoSession.response]
       ELSE /\ disk' = disk
            /\ sess' = [sess EXCEPT !.pc = "thumb", !.idx = @ + 1,
                                    !.url = "none",
                                    !.response = NoSession.response]
    /\ UNCHANGED <<settings, items, targets, run, job, app>>

SessionStep ==
    \/ SessionOpen
    \/ SessionFindInput
    \/ SessionSubmit
    \/ SessionScrollsExhausted
    \/ SessionCycle
    \/ SessionCycleEnd
    \/ SessionClick
    \/ SessionPaneLookupRaises
    \/ SessionPane
    \/ SessionFetch
    \/ SessionStore

----------------------------------------------------------------------------
(* SpecSession: one direct invocation, as the tests make it.               *)

SessionInit ==
    /\ settings = [max_keywords |-> 0, images_per_keyword |-> 0,
                   max_total_images |-> 0, min_images_per_srt |-> 0,
                   max_scrolls_per_keyword |-> 0, images_per_concept |-> 0,
                   max_concepts_per_srt |-> 0]
    /\ items = <<>>
    /\ targets = <<>>
    /\ run = [NoRun EXCEPT !.app = "direct", !.pc = "call"]
    /\ job = NoJob
    /\ sess = NoSession
    /\ disk = NoDisk
    /\ app = NoApp

\* google_images_download(keyword, out_dir, images_needed, max_scrolls, ...).
DirectInvoke ==
    /\ run.app = "direct"
    /\ run.pc = "call"
    /\ \E n \in 0..MaxNeed, m \in 1..MaxScrolls, w \in BOOLEAN,
          naming \in BOOLEAN, ts \in TimestampLists(MaxStamps),
          c \in 0..MaxStart :
          sess' = EnterSessionNamed(IF w THEN Keyword(1) \o <<"Wikipedia">>
                                         ELSE Keyword(1),
                                    <<"test_images">>, n, m,
                                    naming, ts, c)
    /\ run' = [run EXCEPT !.pc = "await", !.sessions = @ + 1]
    /\ UNCHANGED <<settings, items, targets, job, disk, app>>

SessionNext == DirectInvoke \/ SessionStep

SpecSession == SessionInit /\ [][SessionNext]_vars

\* The invocation with every awaited browser step and every requests.get
\* (timeout=15) returning: a session that can take a step takes one.
SpecSessionLive == SpecSession /\ WF_vars(SessionStep)

----------------------------------------------------------------------------
(* Folder names: broll_core.safe_folder_name, on strings as sequences of   *)
(* characters.                                                             *)

NameLimit == 80             \* line 55: s[:80]

LowerLetters ==
    {"a", "b", "c", "d", "e", "f", "g", "h", "i", "j", "k", "l", "m", "n",
     "o", "p", "q", "r", "s", "t", "u", "v", "w", "x", "y", "z"}

DecimalDigits == {"0", "1", "2", "3", "4", "5", "6", "7", "8", "9"}

\* The characters that str.strip removes and that \s matches in a str
\* pattern: space, tab, newline, carriage return, form feed, vertical tab,
\* the separators \x1c to \x1f, next line \x85, no-break space \xa0, and
\* the spaces beyond Latin-1, which are named by their code points.
Whitespace ==
    {" ", "\t", "\n", "\r", "\f", "", "", "", "", "", "", " ",
     "U+1680", "U+2000", "U+2001", "U+2002", "U+2003", "U+2004", "U+2005",
     "U+2006", "U+2007", "U+2008", "U+2009", "U+200A", "U+2028", "U+2029",
     "U+202F", "U+205F", "U+3000"}

\* The characters arguments are made of: an upper-case and a lower-case
\* letter, a digit, the two marks the pattern keeps, a space, a tab, a
\* newline, a no-break space, a punctuation mark, a capital letter of
\* Latin-1, the Kelvin sign, whose lower case is the ASCII letter k, and
\* the dotted capital I, whose lower case is i and a combining dot.
FolderChars ==
    {"A", "a", "7", "_", "-", " ", "\t", "\n", " ", "!", "É", "U+212A",
     "U+0130"}

UpperAlphabet ==
    <<"A", "B", "C", "D", "E", "F", "G", "H", "I", "J", "K", "L", "M", "N",
      "O", "P", "Q", "R", "S", "T", "U", "V", "W", "X", "Y", "Z">>

LowerAlphabet ==
    <<"a", "b", "c", "d", "e", "f", "g", "h", "i", "j", "k", "l", "m", "n",
      "o", "p", "q", "r", "s", "t", "u", "v", "w", "x", "y", "z">>

\* The capital letters of Latin-1 and their lower case.
UpperLatin1 ==
    <<"À", "Á", "Â", "Ã", "Ä", "Å", "Æ", "Ç", "È", "É", "Ê", "Ë", "Ì", "Í",
      "Î", "Ï", "Ð", "Ñ", "Ò", "Ó", "Ô", "Õ", "Ö", "Ø", "Ù", "Ú", "Û", "Ü",
      "Ý", "Þ">>

LowerLatin1 ==
    <<"à", "á", "â", "ã", "ä", "å", "æ", "ç", "è", "é", "ê", "ë", "ì", "í",
      "î", "ï", "ð", "ñ", "ò", "ó", "ô", "õ", "ö", "ø", "ù", "ú", "û", "ü",
      "ý", "þ">>

\* str.lower on a string of one character; the result is a string, of two
\* characters for the dotted capital I.
LowerChar(c) ==
    IF \E i \in DOMAIN UpperAlphabet : UpperAlphabet[i] = c
    THEN <<LowerAlphabet[CHOOSE i \in DOMAIN UpperAlphabet :
                                  UpperAlphabet[i] = c]>>
    ELSE IF \E i \in DOMAIN UpperLatin1 : UpperLatin1[i] = c
    THEN <<LowerLatin1[CHOOSE i \in DOMAIN UpperLatin1 : UpperLatin1[i] = c]>>
    ELSE IF c = "U+212A" THEN <<"k">>
    ELSE IF c = "U+0130" THEN <<"i", "U+0307">>
    ELSE <<c>>

\* Line 52: s.strip().
LStrip(s) ==
    LET kept == {i \in 1..Len(s) : s[i] \notin Whitespace}
    IN  IF kept = {} THEN <<>>
        ELSE SubSeq(s, CHOOSE i \in kept : \A j \in kept : i <= j, Len(s))

RStrip(s) ==
    LET kept == {i \in 1..Len(s) : s[i] \notin Whitespace}
    IN  IF kept = {} THEN <<>>
        ELSE SubSeq(s, 1, CHOOSE i \in kept : \A j \in kept : i >= j)

\* Line 52: .lower().
RECURSIVE LowerStr(_)
LowerStr(s) ==
    IF s = <<>> THEN <<>> ELSE LowerChar(Head(s)) \o LowerStr(Tail(s))

\* Line 53: the character class [a-z0-9_\- ] of the first pattern.
KeptChar(c) == c \in LowerLetters \cup DecimalDigits \cup {"_", "-", " "}

\* Line 53: re.sub(r"[^a-z0-9_\- ]+", "", s).
RemoveOthers(s) == SelectSeq(s, KeptChar)

\* Line 54: re.sub(r"\s+", "_", s).
\* Each maximal run of whitespace leaves one underscore, at its first place.
CollapseSpace(s) ==
    LET Mark(i) == IF s[i] \notin Whitespace THEN s[i]
                   ELSE IF i > 1 /\ s[i - 1] \in Whitespace THEN ""
                   ELSE "_"
        Left(c) == c # ""
    IN  SelectSeq([i \in 1..Len(s) |-> Mark(i)], Left)

KeywordLiteral == <<"k", "e", "y", "w", "o", "r", "d">>

\* broll_core.py lines 51-55.
safe_folder_name(s) ==
    LET t == CollapseSpace(RemoveOthers(LowerStr(RStrip(LStrip(s)))))
    IN  IF t # <<>> THEN SubSeq(t, 1, Min(Len(t), NameLimit))
        ELSE KeywordLiteral

----------------------------------------------------------------------------
(* The settings dicts of the two applications and the text of             *)
(* settings.json.                                                         *)

\* broll_core.py lines 18-29.
DEFAULT_SETTINGS ==
    [whisper_model |-> "base", images_per_keyword |-> 3, max_keywords |-> 20,
     max_total_images |-> 60, max_scrolls_per_keyword |-> 6,
     use_visible_browser |-> TRUE, use_existing_chrome_profile |-> FALSE,
     chrome_profile_dir |-> "", min_images_per_srt |-> 20]

\* unified_app.py lines 502-513.
AppDefaults ==
    [whisper_model |-> "base", images_per_concept |-> 3,
     max_concepts_per_srt |-> 15, max_total_images |-> 50,
     max_scrolls_per_keyword |-> 6, use_visible_browser |-> TRUE,
     use_existing_chrome_profile |-> FALSE, chrome_profile_dir |-> "",
     srt_youtube_enabled |-> FALSE, srt_other_enabled |-> FALSE]

\* The Python type of the value a settings key holds, as the literals of
\* the two default dicts give it; a key of neither holds a number here.
PyType(k) ==
    IF k \in {"whisper_model", "chrome_profile_dir"} THEN "str"
    ELSE IF k \in {"use_visible_browser", "use_existing_chrome_profile",
                   "srt_youtube_enabled", "srt_other_enabled"} THEN "bool"
    ELSE "int"

\* The decimal digits of a natural number.
RECURSIVE Digits(_)
Digits(n) ==
    IF n < 10 THEN <<DigitChars[n + 1]>>
    ELSE Digits(n \div 10) \o <<DigitChars[(n % 10) + 1]>>

\* The value of a digit character.
DigitValue(c) == CHOOSE d \in 0..9 : DigitChars[d + 1] = c

\* The number a sequence of decimal digits writes.
RECURSIVE ParseDigits(_)
ParseDigits(ds) ==
    IF Len(ds) = 1 THEN DigitValue(ds[1])
    ELSE 10 * ParseDigits(SubSeq(ds, 1, Len(ds) - 1)) + DigitValue(ds[Len(ds)])

\* json.dump of one value: a number as its digits, a bool as true or false,
\* a str between quotes.
JsonEncode(type, v) ==
    IF type = "int" THEN [kind |-> "number", lit |-> Digits(v)]
    ELSE IF type = "bool"
         THEN [kind |-> "literal", lit |-> <<IF v THEN "true" ELSE "false">>]
    ELSE [kind |-> "string", lit |-> <<v>>]

\* json.load of one value.
JsonDecode(tok) ==
    IF tok.kind = "number" THEN ParseDigits(tok.lit)
    ELSE IF tok.kind = "literal" THEN tok.lit[1] = "true"
    ELSE tok.lit[1]

\* json.dump(settings, f, indent=2): every key of the dict with its value.
JsonDump(d) == [k \in DOMAIN d |-> JsonEncode(PyType(k), d[k])]

\* json.load(f) of a file that holds a JSON object.
JsonLoad(text) == [k \in DOMAIN text |-> JsonDecode(text[k])]

\* Keys a settings.json is given here: one both loaders know, one only
\* broll_core knows, one only the batch app knows, one neither knows.
FileKeys ==
    {"max_total_images", "images_per_keyword", "images_per_concept", "theme"}

\* The JSON objects of the file: some of the keys, each with a number.
SettingsFiles ==
    UNION {[keys -> {JsonEncode("int", n) : n \in 1..MaxFileValue}] :
              keys \in SUBSET FileKeys}

\* A settings.json that is not JSON, such as one cut short while written.
MalformedFile == [exists |-> TRUE, parses |-> FALSE, data |-> EmptyDict]

\* broll_core.py lines 37-39: the defaults, updated with the keys of the
\* file that are keys of DEFAULT_SETTINGS.
MergeKnown(defaults, data) ==
    [k \in DOMAIN defaults |->
        IF k \in DOMAIN data THEN data[k] ELSE defaults[k]]

\* unified_app.py line 519: defaults.update(loaded).
MergeAll(defaults, data) ==
    [k \in DOMAIN defaults \cup DOMAIN data |->
        IF k \in DOMAIN data THEN data[k] ELSE defaults[k]]

\* broll_core.py lines 32-42.  json.load raises on a file that is not JSON
\* and `except Exception` returns the defaults.
load_settings(file) ==
    IF file.exists
    THEN IF file.parses THEN MergeKnown(DEFAULT_SETTINGS, JsonLoad(file.data))
         ELSE DEFAULT_SETTINGS
    ELSE DEFAULT_SETTINGS

\* unified_app.py lines 515-521: only FileNotFoundError is caught, so the
\* JSONDecodeError of a file that is not JSON leaves _load_app_settings.
LoadAppSettingsRaises(file) == file.exists /\ ~file.parses

\* unified_app.py lines 500-523, when it returns.
LoadAppSettingsResult(file) ==
    IF file.exists THEN MergeAll(AppDefaults, JsonLoad(file.data))
    ELSE AppDefaults

\* A mistaken writer: booleans written the way Python prints them.
WriteSettingsPyRepr(settings_dict) ==
    [exists |-> TRUE, parses |-> FALSE, data |-> EmptyDict]

\* broll_core.py lines 45-47 and unified_app.py lines 527-530: the file is
\* opened for writing and json.dump writes the dict.
WriteSettings(settings_dict) ==
    [exists |-> TRUE, parses |-> TRUE, data |-> JsonDump(settings_dict)]

\* The file system with a settings.json that holds the dict d and no image.
OnDisk(d) == [NoDisk EXCEPT !.settings_json = WriteSettings(d)]

\* unified_app.py lines 1053-1063: the dict that Save builds from the form.
\* The operator has set the three budget fields; the other fields hold what
\* the dialog showed when it was opened.
FormSettings(s, per, tot, scr) ==
    [whisper_model |-> s.whisper_model,
     images_per_concept |-> per,
     max_concepts_per_srt |-> s.max_concepts_per_srt,
     max_total_images |-> tot,
     max_scrolls_per_keyword |-> scr,
     use_visible_browser |-> FALSE,
     chrome_profile_dir |-> s.chrome_profile_dir,
     srt_youtube_enabled |-> s.srt_youtube_enabled,
     srt_other_enabled |-> s.srt_other_enabled]

\* What the operator types into the dialog of the batch app before a Save,
\* as images per concept and as images in total: the smallest count or the
\* default of images_per_concept.  The fields take typed numbers.
FormCounts == {1, AppDefaults.images_per_concept}

\* The dialog's scrolls per keyword at a Save.
FormScrolls == {1}

\* unified_app.py line 934: the buffer factor of the calculated total.
ScalingBuffer == 2

\* unified_app.py line 938: the distance over which the total is rewritten.
ScalingSlack == 5

\* unified_app.py line 939: the least total update_scaling sets.
ScaledTotalMin == 10

\* unified_app.py line 939: the greatest total update_scaling sets.
ScaledTotalMax == 200

\* abs() of Python.
Abs(n) == IF n >= 0 THEN n ELSE 0 - n

\* unified_app.py lines 925-942: the value of max_total_images_var after
\* update_scaling ran on the form.
update_scaling(images_per, max_concepts, current_total) ==
    LET calculated_total == images_per * max_concepts * ScalingBuffer
    IN  IF Abs(calculated_total - current_total) > ScalingSlack
        THEN Max(ScaledTotalMin, Min(ScaledTotalMax, calculated_total))
        ELSE current_total

\* unified_app.py lines 838-840, 944-952 and 1055-1057: what
\* images_per_concept_var and max_total_images_var can hold when Save is
\* clicked, as pairs.  The dialog opens with the values of self.settings;
\* the operator types a count into either field, any number of times; every
\* write of a field schedules update_scaling 300 ms later, and Save is
\* clicked before or after it has run.  So a total that update_scaling set
\* for an earlier images_per_concept can be saved with a later one.
RECURSIVE FormClosure(_, _)
FormClosure(max_concepts, forms) ==
    LET typed == {<<p, f[2]>> : p \in FormCounts, f \in forms}
                    \cup {<<f[1], t>> : t \in FormCounts, f \in forms}
        scaled == {<<f[1], update_scaling(f[1], max_concepts, f[2])>> :
                      f \in forms}
        more == forms \cup typed \cup scaled
    IN  IF more = forms THEN forms ELSE FormClosure(max_concepts, more)

FormContents(s) ==
    FormClosure(s.max_concepts_per_srt,
                {<<s.images_per_concept, s.max_total_images>>})

----------------------------------------------------------------------------
(* Harvest loops.  run.i is the 1-based position in the concept list,      *)
(* run.total the running total of saved images, run.need the quota of the  *)
(* current concept, run.saved what its primary session returned.           *)

\* The settings.json files a harvest of the command line or of the desktop
\* app starts from, as save_settings wrote them in an earlier run: the keys
\* of DEFAULT_SETTINGS, the budget keys each with a small number.
HarvestFiles ==
    {[DEFAULT_SETTINGS EXCEPT
         !.max_keywords = k, !.images_per_keyword = per,
         !.max_total_images = tot, !.min_images_per_srt = mn,
         !.max_scrolls_per_keyword = scr] :
        k \in 1..HMaxItems, per \in 1..HMaxPer, tot \in 1..HMaxTotal,
        mn \in 0..HMaxMin, scr \in 1..HMaxScrolls}

\* The settings.json files the batch app starts from, as the Save of its
\* settings dialog wrote them in an earlier run.
BatchFiles ==
    {FormSettings([AppDefaults EXCEPT !.max_concepts_per_srt = HMaxItems],
                  per, tot, scr) :
        per \in 1..HMaxPer, tot \in 1..HMaxTotal, scr \in 1..HMaxScrolls}

\* A named entity of several words, as extract_concepts returns them.
LongConcept == <<"Massachusetts", "Institute", "of", "Technology">>

\* What extract_concepts can return under max_concepts: distinct concepts,
\* at most max_concepts of them.
BatchConceptLists(max_concepts) ==
    {Transcript(n) : n \in 0..max_concepts} \cup {<<LongConcept>>}

\* unified_app.py line 435: f"{concept} Wikipedia".
WikiKeyword(concept) == concept \o <<"Wikipedia">>

\* unified_app.py line 390: every session of a job writes to <job_dir>/images.
BatchImagesDir == <<"job_dir", "images">>

\* srt_to_images.py line 40 and app.py line 195: a folder per keyword under
\* the root, named by safe_folder_name.
KeywordDir(root, kw) == <<root>> \o safe_folder_name(Text(kw))

\* unified_app.py line 404: images_per_concept = max(1, settings[...]).
ConceptQuota(s) == Max(1, s.images_per_concept)

\* unified_app.py line 405: the quota would pass the cap.
OverCap(s, total, images_per_concept) ==
    total + images_per_concept > s.max_total_images

\* unified_app.py line 406: the quota is what the cap leaves, 1 at least.
ClampedQuota(s, total) == Max(1, s.max_total_images - total)

\* A mutant of the shortfall: the fallback asks for the whole quota again.
WikiNeededWholeQuota(need, saved) == need

\* unified_app.py line 427: wiki_needed = images_per_concept - saved.
WikiNeeded(need, saved) == need - saved

\* A mutant of the fallback's naming: it starts at the primary's index.
FallbackStartCounterStale(image_counter, saved) == image_counter

\* unified_app.py line 447: start_counter=image_counter + saved.
FallbackStartCounter(image_counter, saved) == image_counter + saved

\* A mutant of the fallback test: the fallback runs whatever the primary saved.
FallbackWantedAlways(wiki_needed) == TRUE

\* unified_app.py line 430: `if wiki_needed > 0`.
FallbackWanted(wiki_needed) == wiki_needed > 0

\* process_job lines 272-276: the handler of every exception of the job.
JobFailed(j, message) ==
    [j EXCEPT !.status = "error", !.error = message, !.completed_at = "set"]

\* process_job lines 268-270.
JobDone(j) == [j EXCEPT !.status = "done", !.completed_at = "set"]

\* The harvest is left because an exception passes through it.
Aborted(r) == [r EXCEPT !.pc = "aborted"]

\* unified_app.py lines 450-453: add the concept's images to the totals; the
\* test of the cap (line 454) is next.
BatchConceptDone(r, saved_total) ==
    [r EXCEPT !.total = r.total + saved_total,
              !.pc = "check",
              !.i = @ + 1, !.need = 0, !.saved = 0,
              !.primary_urls = {}]

\* A mutant of the await: the loop goes on while the session still runs.
AwaitedNotWaiting(s) == s.pc \notin {"idle", "raised"}

\* `saved = await google_images_download(...)`: the loop resumes with the
\* value the session returned.
Awaited(s) == s.pc = "returned"

\* A mutant of a sequential harvest: the loop goes on after a failed session.
HarvestAfterRaiseContinue(r) == [r EXCEPT !.pc = "loop", !.i = @ + 1]

\* The exception of a session passes through the loop that awaited it:
\* unified_app.py lines 412 and 436, srt_to_images.py line 59, app.py line 198
\* have no handler inside the loop.
HarvestAfterRaise(r) == Aborted(r)

\* unified_app.py lines 390-394.  JobProcessor defines no method
\* _extract_srt_timestamps: the call raises AttributeError, which process_job
\* turns into the job's error.
BatchTimestampsMissing ==
    /\ run.app = "batch"
    /\ run.pc = "start"
    /\ run' = Aborted(run)
    /\ job' = JobFailed(job, "AttributeError _extract_srt_timestamps")
    /\ UNCHANGED <<settings, items, targets, sess, disk, app>>

\* unified_app.py lines 390-397 with the helper that final_verification_test.py
\* expects JobProcessor to have: the timestamps are read, the totals start at 0.
BatchTimestamps ==
    /\ run.app = "batch"
    /\ run.pc = "start"
    /\ \E ts \in TimestampLists(HMaxStamps) :
          run' = [run EXCEPT !.pc = "loop", !.i = 1, !.total = 0,
                             !.timestamps = ts]
    /\ UNCHANGED <<settings, items, targets, job, sess, disk, app>>

\* The worker thread reads self.settings key by key and takes no lock, while
\* the UI thread may save the settings dialog between any two reads.  Each
\* read of the loop is a step of its own; run.budget keeps the value the
\* loop last read of each key.

\* unified_app.py lines 399-401: the next concept is put in job.progress and
\* the status callback is called, which hands the update to the event loop
\* of the UI thread.  At "quota" the callback is running or has returned.
BatchNextConcept ==
    /\ run.app = "batch"
    /\ run.pc = "loop"
    /\ run.i <= Len(items)
    /\ run' = [run EXCEPT
                  !.reported = Report("Images", items[run.i], run.i, 0),
                  !.pc = "quota"]
    /\ UNCHANGED <<settings, items, targets, job, sess, disk, app>>

\* unified_app.py lines 401 and 432 with 272-275: the status callback of the
\* loop raises (RuntimeError "main thread is not in main loop") after
\* job.progress was set and while the job is IMAGES; the exception leaves
\* _download_images, after line 432 with the primary session over, and the
\* handler of process_job sets ERROR.
BatchCallbackRaised ==
    /\ run.app = "batch"
    /\ run.pc \in {"quota", "wiki"}
    /\ run' = Aborted(run)
    /\ job' = JobFailed(job, "status callback")
    /\ sess' = NoSession
    /\ UNCHANGED <<settings, items, targets, disk, app>>

\* unified_app.py line 404: images_per_concept is read; run.need is the
\* local images_per_concept.
BatchReadQuota ==
    /\ run.app = "batch"
    /\ run.pc = "quota"
    /\ run' = [run EXCEPT
                  !.pc = "cap", !.need = ConceptQuota(settings),
                  !.budget.images_per_concept = settings.images_per_concept]
    /\ UNCHANGED <<settings, items, targets, job, sess, disk, app>>

\* unified_app.py line 405: max_total_images is read for the test.
BatchTestCap ==
    /\ run.app = "batch"
    /\ run.pc = "cap"
    /\ run' = [run EXCEPT
                  !.pc = IF OverCap(settings, run.total, run.need)
                         THEN "clamp" ELSE "enter",
                  !.budget.max_total_images = settings.max_total_images]
    /\ UNCHANGED <<settings, items, targets, job, sess, disk, app>>

\* unified_app.py line 406: max_total_images is read again for the quota.
BatchClamp ==
    /\ run.app = "batch"
    /\ run.pc = "clamp"
    /\ run' = [run EXCEPT
                  !.pc = "enter", !.need = ClampedQuota(settings, run.total),
                  !.budget.max_total_images = settings.max_total_images]
    /\ UNCHANGED <<settings, items, targets, job, sess, disk, app>>

\* unified_app.py lines 408-424: the loop is left when the quota is not
\* positive; else max_scrolls_per_keyword is read and the primary session
\* is entered.
BatchStartPrimary ==
    /\ run.app = "batch"
    /\ run.pc = "enter"
    /\ IF run.need <= 0
       THEN /\ run' = [run EXCEPT !.pc = "done"]
            /\ job' = JobDone(job)
            /\ sess' = sess
       ELSE /\ run' = [run EXCEPT
                          !.pc = "primary",
                          !.sessions = @ + 1,
                          !.budget.max_scrolls_per_keyword =
                             settings.max_scrolls_per_keyword]
            /\ sess' = EnterSessionNamed(
                          items[run.i], BatchImagesDir, run.need,
                          settings.max_scrolls_per_keyword,
                          TRUE, run.timestamps, run.total)
            /\ job' = job
    /\ UNCHANGED <<settings, items, targets, disk, app>>

\* unified_app.py lines 426-432: the primary session fell short; the
\* fallback is put in job.progress and the status callback is called.  At
\* "wiki" the callback is running or has returned and the worker stands
\* before line 435.
BatchReportFallback ==
    /\ run.app = "batch"
    /\ run.pc = "primary"
    /\ Awaited(sess)
    /\ FallbackWanted(WikiNeeded(run.need, sess.saved))
    /\ run' = [run EXCEPT
                  !.reported = Report("Wikipedia", items[run.i], run.i, 0),
                  !.pc = "wiki"]
    /\ UNCHANGED <<settings, items, targets, job, sess, disk, app>>

\* unified_app.py lines 435-448: max_scrolls_per_keyword is read again and
\* the fallback session is entered for the shortfall.  run.primary_urls
\* keeps the URLs whose images the primary session wrote.
BatchStartFallback ==
    /\ run.app = "batch"
    /\ run.pc = "wiki"
    /\ LET wiki_needed == WikiNeeded(run.need, sess.saved)
       IN  /\ run' = [run EXCEPT
                         !.pc = "fallback", !.saved = sess.saved,
                         !.sessions = @ + 1,
                         !.primary_urls =
                            {sess.written[k] : k \in DOMAIN sess.written},
                         !.budget.max_scrolls_per_keyword =
                            settings.max_scrolls_per_keyword]
           /\ sess' = EnterSessionNamed(
                         WikiKeyword(items[run.i]), BatchImagesDir,
                         wiki_needed, settings.max_scrolls_per_keyword,
                         TRUE, run.timestamps,
                         FallbackStartCounter(run.total, sess.saved))
    /\ UNCHANGED <<settings, items, targets, job, disk, app>>

\* unified_app.py lines 426-430 and 450-453: the primary session met the
\* quota; wiki_saved stays 0 and the concept's images are counted.
BatchSkipFallback ==
    /\ run.app = "batch"
    /\ run.pc = "primary"
    /\ Awaited(sess)
    /\ ~FallbackWanted(WikiNeeded(run.need, sess.saved))
    /\ run' = BatchConceptDone(run, sess.saved + 0)
    /\ sess' = NoSession
    /\ UNCHANGED <<settings, items, targets, job, disk, app>>

\* unified_app.py lines 436-453: the fallback session returned.
BatchAfterFallback ==
    /\ run.app = "batch"
    /\ run.pc = "fallback"
    /\ Awaited(sess)
    /\ run' = BatchConceptDone(run, run.saved + sess.saved)
    /\ sess' = NoSession
    /\ UNCHANGED <<settings, items, targets, job, disk, app>>

\* unified_app.py lines 454-455: max_total_images is read once more; the
\* loop is left when the cap is reached, and process_job marks the job
\* done; else the loop goes on with the next concept.
BatchCapCheck ==
    /\ run.app = "batch"
    /\ run.pc = "check"
    /\ LET read == [run EXCEPT !.budget.max_total_images =
                                  settings.max_total_images]
       IN  IF run.total >= settings.max_total_images
           THEN /\ run' = [read EXCEPT !.pc = "done"]
                /\ job' = JobDone(job)
           ELSE /\ run' = [read EXCEPT !.pc = "loop"]
                /\ job' = job
    /\ UNCHANGED <<settings, items, targets, sess, disk, app>>

\* unified_app.py line 399 with the concepts used up: _download_images
\* returns and process_job marks the job done.
BatchLoopDone ==
    /\ run.app = "batch"
    /\ run.pc = "loop"
    /\ run.i > Len(items)
    /\ run' = [run EXCEPT !.pc = "done"]
    /\ job' = JobDone(job)
    /\ UNCHANGED <<settings, items, targets, sess, disk, app>>

\* A session raised: the exception leaves _download_images and reaches the
\* handler of process_job (lines 272-276).
BatchSessionRaised ==
    /\ run.app = "batch"
    /\ run.pc \in {"primary", "fallback"}
    /\ sess.pc = "raised"
    /\ run' = HarvestAfterRaise(run)
    /\ job' = IF run'.pc = "aborted" THEN JobFailed(job, sess.error) ELSE job
    /\ sess' = NoSession
    /\ UNCHANGED <<settings, items, targets, disk, app>>

\* process_job lines 270 and 272-275: the status callback of the DONE job
\* raises; the call is inside the try block, so the handler sets ERROR.
JobDoneCallbackRaised ==
    /\ run.app = "batch"
    /\ run.pc \in {"done", "skipped"}
    /\ job.status = "done"
    /\ job' = JobFailed(job, "status callback")
    /\ run' = Aborted(run)
    /\ UNCHANGED <<settings, items, targets, sess, disk, app>>

\* unified_app.py lines 1049-1064, on the UI thread while the worker thread
\* runs the job, at any moment of it: the dict new_settings is built from
\* the form and self.settings.update(new_settings) changes the dict that
\* JobProcessor.settings refers to.  The file is written next (line 1065).
\* The operator may save any number of times; run.nsaves counts the saves
\* up to MaxSaves.
SaveSettings ==
    /\ run.app = "batch"
    /\ run.ui = "idle"
    /\ run.nsaves < MaxSaves
    /\ \E form \in FormContents(settings), scr \in FormScrolls :
          LET new_settings == FormSettings(settings, form[1], form[2], scr)
          IN  /\ settings' = MergeAll(settings, new_settings)
              /\ run' = [run EXCEPT !.ui = "write",
                                    !.new_settings = new_settings,
                                    !.nsaves = @ + 1]
    /\ UNCHANGED <<items, targets, job, sess, disk, app>>

\* unified_app.py lines 1065 and 527-530: _save_app_settings writes the dict
\* it was handed to settings.json, after self.settings has changed.
SaveSettingsWrite ==
    /\ run.app \in {"batch", "queue"}
    /\ run.ui = "write"
    /\ disk' = [disk EXCEPT
                   !.settings_json = WriteSettings(run.new_settings)]
    /\ run' = [run EXCEPT !.ui = "idle", !.new_settings = EmptyDict]
    /\ UNCHANGED <<settings, items, targets, job, sess, app>>

\* srt_to_images.py lines 22-37: plan the downloads of one transcript.
CliPlan ==
    /\ run.app = "cli"
    /\ run.pc = "start"
    /\ targets' = compute_keyword_image_targets(items, settings)
    /\ run' = [run EXCEPT
                  !.pc = IF targets' = <<>> THEN "done" ELSE "loop",
                  !.i = 1, !.total = 0,
                  !.reported = IF targets' = <<>>
                               THEN Report("skip", <<>>, 0, 0) ELSE @]
    /\ UNCHANGED <<settings, items, job, sess, disk, app>>

\* srt_to_images.py lines 57-59 and 39-54: the session of the next target.
CliStartSession ==
    /\ run.app = "cli"
    /\ run.pc = "loop"
    /\ run.i <= Len(targets)
    /\ run' = [run EXCEPT
                  !.pc = "primary", !.need = targets[run.i][2],
                  !.sessions = @ + 1,
                  !.reported = Report("Keyword", targets[run.i][1],
                                      targets[run.i][2], 0)]
    /\ sess' = EnterSession(targets[run.i][1],
                            KeywordDir("out_root", targets[run.i][1]),
                            targets[run.i][2],
                            settings.max_scrolls_per_keyword)
    /\ UNCHANGED <<settings, items, targets, job, disk, app>>

\* srt_to_images.py lines 59-60: total_saved += saved.
CliAfterSession ==
    /\ run.app = "cli"
    /\ run.pc = "primary"
    /\ Awaited(sess)
    /\ run' = [run EXCEPT !.pc = "loop", !.i = @ + 1, !.need = 0,
                          !.total = @ + sess.saved]
    /\ sess' = NoSession
    /\ UNCHANGED <<settings, items, targets, job, disk, app>>

\* srt_to_images.py lines 57 and 62: the targets are used up.
CliLoopDone ==
    /\ run.app = "cli"
    /\ run.pc = "loop"
    /\ run.i > Len(targets)
    /\ run' = [run EXCEPT !.pc = "done"]
    /\ UNCHANGED <<settings, items, targets, job, sess, disk, app>>

\* srt_to_images.py line 59: the exception leaves process_single_srt.
CliSessionRaised ==
    /\ run.app = "cli"
    /\ run.pc = "primary"
    /\ sess.pc = "raised"
    /\ run' = HarvestAfterRaise(run)
    /\ sess' = NoSession
    /\ UNCHANGED <<settings, items, targets, job, disk, app>>

\* app.py lines 145-157: the settings dict updated with the values of the
\* form.  The operator has set the four numbers; the other fields hold what
\* the window was built with.
FormValues(s, k, per, tot, scr) ==
    MergeAll(s, [whisper_model |-> s.whisper_model,
                 images_per_keyword |-> per,
                 max_keywords |-> k,
                 max_total_images |-> tot,
                 max_scrolls_per_keyword |-> scr,
                 use_visible_browser |-> s.use_visible_browser,
                 use_existing_chrome_profile |-> s.use_existing_chrome_profile,
                 chrome_profile_dir |-> s.chrome_profile_dir])

\* app.py lines 162-166: without a video file run_all shows an error and
\* returns.
GuiNoVideo ==
    /\ run.app = "gui"
    /\ run.pc = "start"
    /\ run' = [run EXCEPT !.pc = "refused"]
    /\ UNCHANGED <<settings, items, targets, job, sess, disk, app>>

\* app.py lines 144-160, called at line 169 of run_all: the form's values
\* become the settings and are written to settings.json.  The form is not
\* edited while run_all, a command of the UI thread, runs: the settings
\* hold its values from here on.
GuiSaveSettings ==
    /\ run.app = "gui"
    /\ run.pc = "start"
    /\ \E k \in 1..HMaxItems, per \in 1..HMaxPer, tot \in 1..HMaxTotal,
          scr \in 1..HMaxScrolls :
          LET s == FormValues(settings, k, per, tot, scr)
          IN  /\ disk' = [disk EXCEPT !.settings_json = WriteSettings(s)]
              /\ settings' = s
    /\ run' = [run EXCEPT !.pc = "transcribe",
                          !.reported = Report("Settings saved", <<>>, 0, 0)]
    /\ UNCHANGED <<items, targets, job, sess, app>>

\* app.py lines 93 and 144-160: the 'Save settings' button.  run_all is a
\* command of the UI thread and holds it until it returns, so the button is
\* clicked before a run or after it: the form's values become the settings
\* and are written to settings.json.  run.nsaves counts the clicks up to
\* MaxSaves.
GuiSaveClicked ==
    /\ run.app = "gui"
    /\ run.pc \in {"start", "refused", "done", "aborted"}
    /\ run.nsaves < MaxSaves
    /\ \E k \in 1..HMaxItems, per \in 1..HMaxPer, tot \in 1..HMaxTotal,
          scr \in 1..HMaxScrolls :
          LET s == FormValues(settings, k, per, tot, scr)
          IN  /\ disk' = [disk EXCEPT !.settings_json = WriteSettings(s)]
              /\ settings' = s
    /\ run' = [run EXCEPT !.nsaves = @ + 1,
                          !.reported = Report("Settings saved", <<>>, 0, 0)]
    /\ UNCHANGED <<items, targets, job, sess, app>>

\* app.py lines 171-174 and 217-219: Whisper writes the transcript, or it
\* raises and the handler around run_all reports the error.
GuiGenerateSrt ==
    /\ run.app = "gui"
    /\ run.pc = "transcribe"
    /\ \/ run' = [run EXCEPT !.pc = "plan",
                              !.reported = Report("SRT saved", <<>>, 0, 0)]
       \/ run' = [Aborted(run) EXCEPT
                     !.reported = Report("Error", <<>>, 0, 0)]
    /\ UNCHANGED <<settings, items, targets, job, sess, disk, app>>

\* app.py lines 176-193: plan the downloads from the transcript, with the
\* form's values and the min_images_per_srt of the settings.
GuiPlan ==
    /\ run.app = "gui"
    /\ run.pc = "plan"
    /\ targets' = compute_keyword_image_targets(items, settings)
    /\ run' = [run EXCEPT
                  !.pc = "loop", !.i = 1, !.total = 0,
                  !.reported = Report("Keywords selected", <<>>,
                                      Len(targets'), 0)]
    /\ UNCHANGED <<settings, items, job, sess, disk, app>>

\* app.py lines 194-209: the session of the next target.
GuiStartSession ==
    /\ run.app = "gui"
    /\ run.pc = "loop"
    /\ run.i <= Len(targets)
    /\ run' = [run EXCEPT
                  !.pc = "primary", !.need = targets[run.i][2],
                  !.sessions = @ + 1,
                  !.reported = Report("downloading", targets[run.i][1],
                                      targets[run.i][2], 0)]
    /\ sess' = EnterSession(targets[run.i][1],
                            KeywordDir("images_root", targets[run.i][1]),
                            targets[run.i][2],
                            settings.max_scrolls_per_keyword)
    /\ UNCHANGED <<settings, items, targets, job, disk, app>>

\* app.py lines 211-212: total_saved += saved, and the status line.
GuiAfterSession ==
    /\ run.app = "gui"
    /\ run.pc = "primary"
    /\ Awaited(sess)
    /\ run' = [run EXCEPT
                  !.pc = "loop", !.i = @ + 1, !.need = 0,
                  !.total = @ + sess.saved,
                  !.reported = Report("Saved", targets[run.i][1], sess.saved,
                                      run.total + sess.saved)]
    /\ sess' = NoSession
    /\ UNCHANGED <<settings, items, targets, job, disk, app>>

\* app.py lines 194 and 214-215: the targets are used up.
GuiLoopDone ==
    /\ run.app = "gui"
    /\ run.pc = "loop"
    /\ run.i > Len(targets)
    /\ run' = [run EXCEPT !.pc = "done",
                          !.reported = Report("Done", <<>>, 0, 0)]
    /\ UNCHANGED <<settings, items, targets, job, sess, disk, app>>

\* app.py lines 217-219: the handler around the whole of run_all.
GuiSessionRaised ==
    /\ run.app = "gui"
    /\ run.pc = "primary"
    /\ sess.pc = "raised"
    /\ run' = [HarvestAfterRaise(run) EXCEPT
                  !.reported = Report("Error", <<>>, 0, 0)]
    /\ sess' = NoSession
    /\ UNCHANGED <<settings, items, targets, job, disk, app>>

----------------------------------------------------------------------------
(* Spec: a harvest run of one of the three entry points.  run.reported is  *)
(* the last message of the loop; the session's own message, "Searching     *)
(* images for" of broll_core.py line 218, names no count and is left out.  *)

Init ==
    /\ targets = <<>>
    /\ sess = NoSession
    /\ app = NoApp
    /\ \/ /\ \E f \in BatchFiles :
                /\ disk = OnDisk(f)
                /\ settings = LoadAppSettingsResult(disk.settings_json)
          /\ items \in BatchConceptLists(settings.max_concepts_per_srt)
          /\ run = [NoRun EXCEPT !.app = "batch", !.pc = "start"]
          /\ job = [NoJob EXCEPT !.status = "images", !.platform = "tiktok",
                                 !.started_at = "set"]
       \/ /\ \E f \in HarvestFiles :
                /\ disk = OnDisk(f)
                /\ settings = load_settings(disk.settings_json)
          /\ items \in {Transcript(n) : n \in 0..HMaxItems}
          /\ run \in {[NoRun EXCEPT !.app = a, !.pc = "start"] :
                         a \in {"cli", "gui"}}
          /\ job = NoJob

Next ==
    \/ BatchTimestampsMissing
    \/ BatchTimestamps
    \/ BatchNextConcept
    \/ BatchCallbackRaised
    \/ BatchReadQuota
    \/ BatchTestCap
    \/ BatchClamp
    \/ BatchStartPrimary
    \/ BatchReportFallback
    \/ BatchStartFallback
    \/ BatchSkipFallback
    \/ BatchAfterFallback
    \/ BatchCapCheck
    \/ BatchLoopDone
    \/ BatchSessionRaised
    \/ JobDoneCallbackRaised
    \/ SaveSettings
    \/ SaveSettingsWrite
    \/ CliPlan
    \/ CliStartSession
    \/ CliAfterSession
    \/ CliLoopDone
    \/ CliSessionRaised
    \/ GuiNoVideo
    \/ GuiSaveSettings
    \/ GuiSaveClicked
    \/ GuiGenerateSrt
    \/ GuiPlan
    \/ GuiStartSession
    \/ GuiAfterSession
    \/ GuiLoopDone
    \/ GuiSessionRaised
    \/ SessionStep

Spec == Init /\ [][Next]_vars

----------------------------------------------------------------------------
(* Properties of the harvest loops and of the session driver.              *)

\* The images saved so far in the run: the concepts done, the primary
\* session of the current concept, and the session in progress.
SavedSoFar ==
    run.total + (IF run.pc = "fallback" THEN run.saved ELSE 0) + sess.saved

\* The step enters google_images_download.
SessionEntered == sess.pc # "entry" /\ sess'.pc = "entry"

(* C2: in every harvest run the running total of saved images is at most   *)
(* max_total_images whenever it grows, and no session, primary or          *)
(* fallback, is entered once the running total has reached                 *)
(* max_total_images.                                                       *)
C2_CapAndEarlyStop ==
    [][ /\ SessionEntered => SavedSoFar' < settings'.max_total_images
        /\ SavedSoFar' > SavedSoFar
              => SavedSoFar' <= settings'.max_total_images ]_vars

(* C3: an invocation of google_images_download that returns has saved      *)
(* between 0 and images_needed images.                                     *)
C3_SavedWithinQuota ==
    sess.pc = "returned" => (0 <= sess.saved /\ sess.saved <= sess.images_needed)

\* The quota stopped the session: it is met while thumbnails were left.
C3_Witness ==
    /\ sess.pc = "returned"
    /\ sess.images_needed >= 2
    /\ sess.saved = sess.images_needed
    /\ sess.idx < sess.nthumbs

(* C4: within one invocation no two saved files come from the same source  *)
(* URL, also when thumbnails of later scroll cycles yield it again.        *)
C4_DedupWithinSession ==
    \A a, b \in 1..Len(sess.written) :
        sess.written[a] = sess.written[b] => a = b

\* Two files are saved, in a second scroll cycle, and a URL whose fetch was
\* rejected is remembered as well.
C4_Witness ==
    /\ Len(sess.written) = 2
    /\ sess.scroll_i >= 1
    /\ Cardinality(sess.seen) = 3
    /\ sess.saved = 2

(* C5: in the batch harvest, when the primary session of a concept with    *)
(* quota n returns k < n, the fallback is announced and its session is     *)
(* entered next, for the query "<concept> Wikipedia", into the same        *)
(* directory, asking for exactly n - k; the concept's total, primary plus  *)
(* fallback, never exceeds n.  The one other way on is the job's end in    *)
(* ERROR when the status callback of the announcement raises.              *)
C5_FallbackShortfall ==
    [][ /\ ( /\ run.app = "batch"
             /\ run.pc = "primary"
             /\ sess.pc = "returned"
             /\ sess.saved < run.need
             /\ run'.pc # run.pc )
           => run'.pc = "wiki" /\ sess' = sess /\ run'.need = run.need
        /\ ( /\ run.app = "batch"
             /\ run.pc = "wiki"
             /\ run'.pc # run.pc )
           => \/ /\ run'.pc = "fallback"
                 /\ sess'.pc = "entry"
                 /\ sess'.keyword = WikiKeyword(sess.keyword)
                 /\ sess'.out_dir = sess.out_dir
                 /\ sess'.images_needed = run.need - sess.saved
              \/ /\ run'.pc = "aborted"
                 /\ job'.status = "error"
                 /\ job'.error = "status callback"
        /\ run'.pc = "fallback" => run'.saved + sess'.saved <= run'.need
        /\ (run.app = "batch" /\ run'.i = run.i + 1)
           => run'.total - run.total <= run.need ]_vars

\* A fallback session that was asked for a shortfall of 1 out of 2 has
\* returned with it.
C5_Witness ==
    /\ run.app = "batch"
    /\ run.pc = "fallback"
    /\ run.need = 2
    /\ run.saved = 1
    /\ sess.pc = "returned"
    /\ sess.saved = 1

(* C6: when the primary session of a concept saved its full quota, no      *)
(* fallback session is entered for the concept: the loop goes on to the    *)
(* test of the cap with no browsing context opened.                        *)
C6_FallbackSkipped ==
    [][ ( /\ run.app = "batch"
          /\ run.pc = "primary"
          /\ sess.pc = "returned"
          /\ sess.saved >= run.need
          /\ run'.pc # run.pc )
        => /\ run'.pc = "check"
           /\ run'.sessions = run.sessions
           /\ sess' = NoSession ]_vars

\* The first concept is done after a single session and the second is due.
C6_Witness ==
    /\ run.app = "batch"
    /\ run.pc = "loop"
    /\ run.i = 2
    /\ run.i <= Len(items)
    /\ run.sessions = 1
    /\ run.total >= 1

(* C7: when an invocation of google_images_download that opened a          *)
(* browsing context has returned or raised, the context is closed.         *)
C7_ContextClosed ==
    sess.pc \in {"returned", "raised"} => sess.ctx = "closed"

\* An exception inside the scroll loop, after an image was saved.
C7_Witness ==
    /\ sess.pc = "raised"
    /\ sess.error = "detail_lookup"
    /\ sess.saved >= 1
    /\ sess.ctx = "closed"

(* C8: once the search is submitted, a failure on a single thumbnail or    *)
(* candidate (click, detail-pane lookup, attribute read, fetch) makes the  *)
(* session go on with the next candidate; google_images_download does not  *)
(* raise because of it.                                                    *)
C8_CandidateFailureSkipped ==
    [][ sess.pc \in {"thumb", "pane", "fetch", "fetched"}
           => sess'.pc # "raised" ]_vars

(* C9: when no search-input selector matches, google_images_download       *)
(* raises without having filled a query, entered the scroll loop or saved  *)
(* a file; it goes on only with a search input.                            *)
C9_MissingInputIsFatal ==
    /\ sess.search_input = "none"
          => /\ sess.pc \in {"idle", "entry", "open", "raised"}
             /\ ~sess.filled
             /\ sess.saved = 0
             /\ sess.written = <<>>
             /\ sess.seen = {}
    /\ (sess.pc = "raised" /\ sess.error = "no_search_input")
          => sess.search_input = "none"

\* The invocation has raised for the missing search input.
C9_Witness ==
    /\ sess.pc = "raised"
    /\ sess.error = "no_search_input"
    /\ sess.ctx = "closed"

(* C10: when a session of concept i raises, the harvest is left at once:   *)
(* no fallback for concept i and no session of a later concept is entered, *)
(* and in the batch app the job becomes ERROR with the message recorded.   *)
C10_FatalFailureAborts ==
    [][ /\ (sess.pc = "raised" /\ sess'.pc # "raised")
           => /\ run'.pc = "aborted"
              /\ run'.sessions = run.sessions
              /\ sess' = NoSession
              /\ run.app = "batch"
                    => (job'.status = "error" /\ job'.error = sess.error)
        /\ run.pc = "aborted"
           => (run'.pc = "aborted" /\ sess' = NoSession /\ job' = job) ]_vars

\* The primary session of the first of two concepts found no search input:
\* the job is ERROR after that single session.
C10_Witness ==
    /\ run.app = "batch"
    /\ run.pc = "aborted"
    /\ run.i = 1
    /\ Len(items) = 2
    /\ run.sessions = 1
    /\ sess = NoSession
    /\ job.status = "error"
    /\ job.error = "no_search_input"

\* The image files in a directory.
FilesIn(dir) == {f \in disk.files : f.dir = dir}

(* C11: when an invocation of google_images_download into an empty         *)
(* directory has returned `saved`, the directory holds exactly `saved`     *)
(* image files: the file names of the successive saves of a session are    *)
(* pairwise distinct.                                                      *)
C11_FilesEqualSaved ==
    sess.pc = "returned" => Cardinality(FilesIn(sess.out_dir)) = sess.saved

(* C12: within one harvest run no save of a fallback session or of a later *)
(* concept takes the path of a file saved earlier in the run: the number   *)
(* of image files on disk equals the number of images counted as saved,    *)
(* for every concept text and when the timestamps run out.                 *)
C12_NoOverwriteAcrossAttempts ==
    [][ /\ sess'.saved > sess.saved
           => Cardinality(disk'.files) = Cardinality(disk.files) + 1
        /\ run'.pc = "done" => Cardinality(disk'.files) = run'.total ]_vars

(* C13: in a harvest run the sessions are entered one after the other in   *)
(* the order of the concepts: a session is entered only when no other is   *)
(* running, the primary session of a concept only when the concept before  *)
(* it is done, primary and fallback, and the loop moves to the next        *)
(* concept only from a session that has returned.                          *)
C13_SequentialConcepts ==
    [][ /\ SessionEntered => sess.pc \in {"idle", "returned"}
        /\ (SessionEntered /\ run'.pc = "primary")
              => (run.pc \in {"loop", "enter"} /\ sess.pc = "idle"
                  /\ run'.i = run.i)
        /\ (SessionEntered /\ run'.pc = "fallback")
              => (run.pc = "wiki" /\ sess.pc = "returned"
                  /\ run'.i = run.i)
        /\ (run.pc \in {"primary", "fallback"} /\ run'.i # run.i)
              => (run'.i = run.i + 1 /\ sess.pc = "returned") ]_vars

\* The primary session of the second concept is entered as the third
\* session of the run: the first concept had its primary and its fallback.
C13_Witness ==
    /\ run.app = "batch"
    /\ run.i = 2
    /\ run.pc = "primary"
    /\ run.sessions = 3
    /\ sess.pc = "entry"

(* C15: a fetched candidate is saved, its file written and saved           *)
(* incremented by exactly 1, if and only if the response has status 200    *)
(* and a body longer than 1000 bytes; for any other response, or when the  *)
(* fetch raised, no file is written and saved is unchanged.                *)
C15_FetchSuccessCondition ==
    [][ /\ sess.pc = "fetched"
           => IF /\ ~sess.response.raised
                 /\ sess.response.status_code = 200
                 /\ sess.response.length > 1000
              THEN /\ sess'.saved = sess.saved + 1
                   /\ FileName(sess) \in disk'.files
              ELSE /\ sess'.saved = sess.saved
                   /\ disk' = disk
        /\ (sess'.saved > sess.saved \/ disk' # disk)
           => sess.pc = "fetched" ]_vars

\* After a first save, a 200 response with a body of exactly 1000 bytes
\* has arrived.
C15_Witness ==
    /\ sess.pc = "fetched"
    /\ sess.saved = 1
    /\ sess.response.status_code = 200
    /\ sess.response.length = 1000

(* C16: when no thumbnail selector yields an element in a scroll cycle,    *)
(* the session scrolls no further and returns the count saved so far,      *)
(* without raising.                                                        *)
C16_ZeroThumbnailsEnds ==
    [][ (sess.pc = "cycle" /\ sess.scroll_i < sess.max_scrolls)
           => \/ sess'.pc = "thumb" /\ sess'.nthumbs >= 1
              \/ /\ sess'.pc = "returned"
                 /\ sess'.saved = sess.saved
                 /\ sess'.scroll_i = sess.scroll_i
                 /\ sess'.ctx = "closed" ]_vars

\* The second cycle found no thumbnail: the session returned the one image
\* of the first cycle, short of its quota and with a scroll left.
C16_Witness ==
    /\ sess.pc = "returned"
    /\ sess.max_scrolls = 2
    /\ sess.scroll_i = 1
    /\ sess.saved = 1
    /\ sess.images_needed = 2

----------------------------------------------------------------------------
(* SpecSettings: settings.json, its two loaders and its two savers.  Both  *)
(* entry points keep the file next to the sources: broll_core.DEFAULTS_PATH *)
(* and lines 516 and 528 of unified_app.py name the same path.  The run is  *)
(* the one the settings tests make: load, change whisper_model, save, load  *)
(* into a second object, put the first value back, save, load.              *)

\* Values the tests and the operator give whisper_model.
WhisperModels == {"base", "small"}

SettingsInit ==
    /\ settings = EmptyDict
    /\ items = <<>>
    /\ targets = <<>>
    /\ run \in {[NoRun EXCEPT !.app = a, !.pc = "load"] :
                   a \in {"core", "batch_settings"}}
    /\ job = NoJob
    /\ sess = NoSession
    /\ disk \in {NoDisk, [NoDisk EXCEPT !.settings_json = MalformedFile]}
                \cup
                {[NoDisk EXCEPT !.settings_json =
                     [exists |-> TRUE, parses |-> TRUE, data |-> d]] :
                    d \in SettingsFiles}
    /\ app = NoApp

\* srt_to_images.py line 66, app.py line 25, final_verification_test.py
\* lines 20 and 30: settings = load_settings().
LoadSettings ==
    /\ run.app = "core"
    /\ run.pc \in {"load", "saved", "resaved"}
    /\ IF run.pc = "load"
       THEN /\ settings' = load_settings(disk.settings_json)
            /\ run' = [run EXCEPT !.pc = "loaded", !.first = settings']
       ELSE /\ settings' = settings
            /\ run' = [run EXCEPT
                          !.pc = IF run.pc = "saved" THEN "reloaded"
                                 ELSE "done",
                          !.app2 = load_settings(disk.settings_json)]
    /\ UNCHANGED <<items, targets, job, sess, disk, app>>

\* unified_app.py line 483 and comprehensive_test.py lines 22 and 33:
\* settings = self._load_app_settings().
LoadAppSettings ==
    /\ run.app = "batch_settings"
    /\ run.pc \in {"load", "saved", "resaved"}
    /\ IF LoadAppSettingsRaises(disk.settings_json)
       THEN /\ settings' = settings
            /\ run' = [run EXCEPT !.pc = "raised"]
       ELSE IF run.pc = "load"
       THEN /\ settings' = LoadAppSettingsResult(disk.settings_json)
            /\ run' = [run EXCEPT !.pc = "loaded", !.first = settings']
       ELSE /\ settings' = settings
            /\ run' = [run EXCEPT
                          !.pc = IF run.pc = "saved" THEN "reloaded"
                                 ELSE "done",
                          !.app2 = LoadAppSettingsResult(disk.settings_json)]
    /\ UNCHANGED <<items, targets, job, sess, disk, app>>

\* comprehensive_test.py lines 25-26, final_verification_test.py lines
\* 24-25: the value of whisper_model is kept and another is set.
EditSetting ==
    /\ run.pc = "loaded"
    /\ \E v \in WhisperModels :
          settings' = [settings EXCEPT !.whisper_model = v]
    /\ run' = [run EXCEPT !.pc = "edited",
                          !.original = settings.whisper_model]
    /\ UNCHANGED <<items, targets, job, sess, disk, app>>

\* comprehensive_test.py line 41, final_verification_test.py line 37.
RestoreSetting ==
    /\ run.pc = "reloaded"
    /\ settings' = [settings EXCEPT !.whisper_model = run.original]
    /\ run' = [run EXCEPT !.pc = "restored"]
    /\ UNCHANGED <<items, targets, job, sess, disk, app>>

\* app.py line 158: save_settings(s).
SaveSettingsFile ==
    /\ run.pc \in {"edited", "restored"}
    /\ disk' = [disk EXCEPT !.settings_json = WriteSettings(settings)]
    /\ run' = [run EXCEPT
                  !.pc = IF run.pc = "edited" THEN "saved" ELSE "resaved"]
    /\ UNCHANGED <<settings, items, targets, job, sess, app>>

\* unified_app.py lines 525-534: self._save_app_settings(self.settings).
SaveAppSettings ==
    /\ run.pc \in {"edited", "restored"}
    /\ disk' = [disk EXCEPT !.settings_json = WriteSettings(settings)]
    /\ run' = [run EXCEPT
                  !.pc = IF run.pc = "edited" THEN "saved" ELSE "resaved"]
    /\ UNCHANGED <<settings, items, targets, job, sess, app>>

SettingsNext ==
    \/ LoadSettings
    \/ LoadAppSettings
    \/ EditSetting
    \/ RestoreSetting
    \/ SaveSettingsFile
    \/ SaveAppSettings

SpecSettings == SettingsInit /\ [][SettingsNext]_vars

\* The keys the loader that ran recognises, with their defaults.
Recognised == IF run.app = "core" THEN DEFAULT_SETTINGS ELSE AppDefaults

\* What the settings.json that the run started from holds, parsed.
FileData ==
    IF disk.settings_json.exists /\ disk.settings_json.parses
    THEN JsonLoad(disk.settings_json.data)
    ELSE EmptyDict

(* C20: the loaded settings hold, for every recognised key, the value of   *)
(* the file when the file has the key and the default when it has not,     *)
(* and no key of the file that is not recognised.                          *)
C20_LoadMergesOverDefaults ==
    run.pc = "loaded"
       => /\ \A k \in DOMAIN Recognised :
                /\ k \in DOMAIN settings
                /\ settings[k] =
                      IF k \in DOMAIN FileData THEN FileData[k]
                      ELSE Recognised[k]
          /\ DOMAIN settings \subseteq DOMAIN Recognised

(* C21: when settings.json exists and is not JSON, loading does not raise  *)
(* and returns exactly the hardcoded defaults of the loader, in            *)
(* broll_core.load_settings and in UnifiedApp._load_app_settings.          *)
C21_MalformedFallsBack ==
    /\ run.pc \in {"loaded", "raised"}
    /\ disk.settings_json = MalformedFile
    => /\ run.pc = "loaded"
       /\ settings = Recognised

(* C22: after a save of the settings s, a load returns the value of s for  *)
(* every key of s the loader recognises, whisper_model among them; and     *)
(* after the first value is put back and saved, a load returns the         *)
(* settings that were loaded at the start.                                 *)
C22_SaveLoadRoundTrip ==
    /\ run.pc = "reloaded"
          => \A k \in DOMAIN settings \cap DOMAIN Recognised :
                k \in DOMAIN run.app2 /\ run.app2[k] = settings[k]
    /\ run.pc = "done" => run.app2 = run.first

C22_Witness ==
    /\ run.pc = "done"
    /\ run.original = "base"
    /\ run.first.max_total_images = 2
    /\ run.app2.whisper_model = "base"
    /\ disk.settings_json.data.whisper_model.lit = <<"base">>

----------------------------------------------------------------------------
(* SpecQueue: the batch app's job queue, its UI thread and its one worker  *)
(* thread.  Jobs are numbered in the order they are added.  app.processing *)
(* holds the jobs whose process_job coroutine is running, app.ctx the      *)
(* state of each job's browsing context, app.sessions the sessions a job   *)
(* has entered, app.worker the place of the worker thread (at              *)
(* job_queue.get, with a job popped, with current_job set, inside          *)
(* asyncio.run, in the handler of line 811, or ended), app.job the loop's  *)
(* local job and app.current self.current_job, 0 for None.                 *)

JobIds == 1..MaxJobs

\* A mutant of the worker: a job is taken whether or not one is running.
WorkerIdleAlways(a) == TRUE

\* Lines 798-807: the worker thread is at job_queue.get only when
\* asyncio.run(process_job(job)) of the job before has returned.
WorkerIdle(a) == a.worker = "get"

OpenContexts == {j \in JobIds : app.ctx[j] = "open"}

\* The settings.json files the batch app starts from when its queue is
\* followed, as an earlier Save of the dialog wrote them.
QueueFiles ==
    {FormSettings(AppDefaults, per, tot, scr) :
        per \in FormCounts, tot \in FormCounts, scr \in FormScrolls}

QueueInit ==
    /\ \E f \in QueueFiles :
          /\ disk = OnDisk(f)
          /\ settings = LoadAppSettingsResult(disk.settings_json)
    /\ items = <<>>
    /\ targets = <<>>
    /\ run = [NoRun EXCEPT !.app = "queue", !.pc = "mainloop"]
    /\ job = NoJob
    /\ sess = NoSession
    /\ app = [queue |-> <<>>, processing |-> {},
              status |-> [j \in JobIds |-> "none"],
              ctx |-> [j \in JobIds |-> "none"],
              sessions |-> [j \in JobIds |-> 0],
              escaped |-> FALSE, worker |-> "get", job |-> 0, current |-> 0]

\* _add_job, lines 683-697, on the UI thread: a Job is created QUEUED and
\* put on the queue.
AddJob ==
    /\ run.app = "queue"
    /\ \E j \in JobIds :
          /\ app.status[j] = "none"
          /\ \A k \in 1..(j - 1) : app.status[k] # "none"
          /\ app' = [app EXCEPT !.status[j] = "queued",
                                !.queue = Append(@, j)]
    /\ UNCHANGED <<settings, items, targets, run, job, sess, disk>>

\* _process_jobs_loop line 801: job_queue.get returns the next job, which
\* is off the queue and still QUEUED; self.current_job is not yet set.
WorkerGet ==
    /\ run.app = "queue"
    /\ WorkerIdle(app)
    /\ app.queue # <<>>
    /\ app' = [app EXCEPT !.queue = Tail(@),
                          !.job = Head(app.queue),
                          !.worker = "popped"]
    /\ UNCHANGED <<settings, items, targets, run, job, sess, disk>>

\* _process_jobs_loop line 802: self.current_job = job.
WorkerSetCurrent ==
    /\ run.app = "queue"
    /\ app.worker = "popped"
    /\ app' = [app EXCEPT !.current = app.job, !.worker = "got"]
    /\ UNCHANGED <<settings, items, targets, run, job, sess, disk>>

\* _process_jobs_loop line 805 and process_job lines 234-237: the coroutine
\* of the job taken starts and sets DOWNLOADING.
JobBegin ==
    /\ run.app = "queue"
    /\ app.worker = "got"
    /\ app' = [app EXCEPT !.processing = @ \cup {app.job},
                          !.status[app.job] = "downloading",
                          !.worker = "run"]
    /\ UNCHANGED <<settings, items, targets, run, job, sess, disk>>

\* process_job lines 246-263: the video is downloaded and transcribed, the
\* concepts are extracted and the harvest starts.
JobReachImages ==
    /\ run.app = "queue"
    /\ \E j \in app.processing :
          /\ app.status[j] = "downloading"
          /\ app' = [app EXCEPT !.status[j] = "images"]
    /\ UNCHANGED <<settings, items, targets, run, job, sess, disk>>

\* _download_images lines 412 and 436, broll_core.py line 173: the job's
\* harvest enters a session, which opens its browsing context.
JobOpenContext ==
    /\ run.app = "queue"
    /\ \E j \in app.processing :
          /\ app.status[j] = "images"
          /\ app.ctx[j] # "open"
          /\ app.sessions[j] < MaxJobSessions
          /\ app' = [app EXCEPT !.ctx[j] = "open", !.sessions[j] = @ + 1]
    /\ UNCHANGED <<settings, items, targets, run, job, sess, disk>>

\* broll_core.py lines 158 and 327: the session returns or raises, and its
\* context is closed.
JobCloseContext ==
    /\ run.app = "queue"
    /\ \E j \in app.processing :
          /\ app.ctx[j] = "open"
          /\ app' = [app EXCEPT !.ctx[j] = "closed"]
    /\ UNCHANGED <<settings, items, targets, run, job, sess, disk>>

\* process_job lines 268-269 and 272-275: the stages are through and the job
\* is DONE, or an exception of a stage reached the handler and the job is
\* ERROR.  The status callback runs next, inside the coroutine.
JobEnd ==
    /\ run.app = "queue"
    /\ \E j \in app.processing, st \in {"done", "error"} :
          /\ app.status[j] \notin {"done", "error"}
          /\ app.ctx[j] # "open"
          /\ app' = [app EXCEPT !.status[j] = st]
    /\ UNCHANGED <<settings, items, targets, run, job, sess, disk>>

\* process_job lines 270 and 272-275: the status callback of a DONE job
\* raises inside the try block, and the handler sets ERROR.
JobCallbackRaised ==
    /\ run.app = "queue"
    /\ \E j \in app.processing :
          /\ app.status[j] = "done"
          /\ app' = [app EXCEPT !.status[j] = "error"]
    /\ UNCHANGED <<settings, items, targets, run, job, sess, disk>>

\* _process_jobs_loop lines 805-811: asyncio.run(process_job(job)) returned
\* and the loop goes round again, or it raised and the handler of line 811
\* has the exception.  app.escaped tells that an exception has escaped
\* process_job.
WorkerAfterJob(a, j, escapes) ==
    [a EXCEPT !.processing = @ \ {j}, !.escaped = @ \/ escapes,
              !.worker = IF escapes THEN "except" ELSE "get"]

\* process_job lines 270 and 276, _process_jobs_loop lines 805-811: the
\* status callback returns and with it the coroutine, or the callback of
\* line 276, in the handler that has set ERROR, raises and the exception
\* escapes process_job.
WorkerFree ==
    /\ run.app = "queue"
    /\ \E j \in app.processing, escapes \in BOOLEAN :
          /\ app.status[j] \in {"done", "error"}
          /\ escapes => app.status[j] = "error"
          /\ app' = WorkerAfterJob(app, j, escapes)
    /\ UNCHANGED <<settings, items, targets, run, job, sess, disk>>

\* _process_jobs_loop lines 812-813: the handler calls _log_status, which
\* writes to the Tk text widget from the worker thread (lines 790-794).
\* When it returns the loop goes round again; when it raises, nothing
\* catches the exception and the worker thread ends.
WorkerLogError ==
    /\ run.app = "queue"
    /\ app.worker = "except"
    /\ \E raised \in BOOLEAN :
          app' = [app EXCEPT !.worker = IF raised THEN "dead" ELSE "get"]
    /\ UNCHANGED <<settings, items, targets, run, job, sess, disk>>

\* save_settings of the settings dialog, lines 1049-1064, on the UI thread:
\* the dict new_settings is built from the form and the shared dict is
\* updated; settings.json is written next (SaveSettingsWrite).  run.nsaves
\* counts the operator's saves up to MaxSaves.
QueueSaveSettings ==
    /\ run.app = "queue"
    /\ run.ui = "idle"
    /\ run.nsaves < MaxSaves
    /\ \E form \in FormContents(settings), scr \in FormScrolls :
          LET new_settings == FormSettings(settings, form[1], form[2], scr)
          IN  /\ settings' = MergeAll(settings, new_settings)
              /\ run' = [run EXCEPT !.ui = "write",
                                    !.new_settings = new_settings,
                                    !.nsaves = @ + 1]
    /\ UNCHANGED <<items, targets, job, sess, disk, app>>

\* auto_detect_profile lines 983-988 and 1002-1006: the directories looked
\* for on Linux; the first of them that exists is taken, which is any of
\* them, by what the machine has installed.
DetectedProfiles ==
    {"~/.config/google-chrome", "~/.config/chromium", "~/.mozilla/firefox"}

\* auto_detect_profile of the settings dialog, lines 973-1010, when a
\* browser profile exists: the path is put into the shared dict; the whole
\* dict is written to settings.json next (line 1011, SaveSettingsWrite).
AutoDetectProfile ==
    /\ run.app = "queue"
    /\ run.ui = "idle"
    /\ run.nsaves < MaxSaves
    /\ \E detected_path \in DetectedProfiles :
          settings' = [settings EXCEPT !.chrome_profile_dir = detected_path]
    /\ run' = [run EXCEPT !.ui = "write", !.new_settings = settings',
                          !.nsaves = @ + 1]
    /\ UNCHANGED <<items, targets, job, sess, disk, app>>

QueueNext ==
    \/ AddJob
    \/ WorkerGet
    \/ WorkerSetCurrent
    \/ JobBegin
    \/ JobReachImages
    \/ JobOpenContext
    \/ JobCloseContext
    \/ JobEnd
    \/ JobCallbackRaised
    \/ WorkerFree
    \/ WorkerLogError
    \/ QueueSaveSettings
    \/ AutoDetectProfile
    \/ SaveSettingsWrite

SpecQueue == QueueInit /\ [][QueueNext]_vars

\* The steps of the worker thread.
WorkerStep ==
    \/ WorkerGet
    \/ WorkerSetCurrent
    \/ JobBegin
    \/ JobReachImages
    \/ JobOpenContext
    \/ JobCloseContext
    \/ JobEnd
    \/ JobCallbackRaised
    \/ WorkerFree
    \/ WorkerLogError

\* The queue while the settings dialog is left alone, started from the file
\* with the smallest budget.
QueueLiveInit ==
    /\ QueueInit
    /\ disk = OnDisk(FormSettings(AppDefaults, 1, 1, 1))

QueueLiveNext == AddJob \/ WorkerStep

\* The queue with a worker thread that is scheduled while it lives:
\* job_queue.get returns when a job is queued, and every step of process_job
\* terminates.
SpecQueueLive ==
    QueueLiveInit /\ [][QueueLiveNext]_vars /\ WF_vars(WorkerStep)

(* C14: in the batch app, with any number of queued jobs and any           *)
(* interleaving of the UI thread with the worker thread, at most one job   *)
(* is being processed and at most one browsing context is open.            *)
C14_NoConcurrentSessions ==
    /\ Cardinality(app.processing) <= 1
    /\ Cardinality(OpenContexts) <= 1

\* The second job has the context of its session open, the first job is
\* done after its session, the third waits in the queue and the operator's
\* Save has changed the settings and not yet written the file.
C14_Witness ==
    /\ app.status[1] = "done"
    /\ app.sessions[1] = MaxJobSessions
    /\ app.ctx[2] = "open"
    /\ app.sessions[2] = MaxJobSessions
    /\ app.queue = <<3>>
    /\ run.ui = "write"

----------------------------------------------------------------------------
(* SpecJob: JobProcessor.process_job of one job, from QUEUED through the   *)
(* stages to DONE or ERROR.  The image stage is the batch harvest loop     *)
(* above.  The status callback is the app's _on_job_status_update, which   *)
(* schedules updates of the window from the worker thread; it returns, or  *)
(* raises when the window cannot take them.                                *)

JMaxItems == 1          \* extract_concepts of a job returns 0..JMaxItems concepts
JMaxPer == 2            \* images_per_concept of a job: 1..JMaxPer
JMaxTotal == 1          \* max_total_images of a job: 1..JMaxTotal

\* unified_app.py lines 46-50.
Platforms == {"youtube", "tiktok", "instagram", "other"}

\* The settings.json files the batch app starts from when a job is followed
\* through its stages.
JobFiles ==
    {FormSettings([AppDefaults EXCEPT !.max_concepts_per_srt = JMaxItems,
                                      !.srt_youtube_enabled = yt,
                                      !.srt_other_enabled = other],
                  per, tot, 1) :
        per \in 1..JMaxPer, tot \in 1..JMaxTotal,
        yt \in BOOLEAN, other \in BOOLEAN}

\* A mutant of the gate: every platform gets a transcript.
ShouldGenerateSrtAlways(j, s) == TRUE

\* unified_app.py lines 347-356.
ShouldGenerateSrt(j, s) ==
    IF j.platform = "tiktok" THEN TRUE
    ELSE IF j.platform = "instagram" THEN TRUE
    ELSE IF j.platform = "youtube" THEN s.srt_youtube_enabled
    ELSE s.srt_other_enabled

\* The order of the members of JobStatus, lines 36-43.
JobStatusOrder ==
    <<"queued", "downloading", "transcribing", "analyzing", "images", "done",
      "error">>

JobInit ==
    /\ \E f \in JobFiles :
          /\ disk = OnDisk(f)
          /\ settings = LoadAppSettingsResult(disk.settings_json)
    /\ items = <<>>
    /\ targets = <<>>
    /\ run = [NoRun EXCEPT !.app = "batch", !.pc = "queued"]
    /\ job \in {[NoJob EXCEPT !.status = "queued", !.platform = p] :
                   p \in Platforms}
    /\ sess = NoSession
    /\ app = NoApp

\* process_job lines 234-237: the job starts and is DOWNLOADING; at
\* "downloading" the status callback of line 237 is running or has returned.
JobStart ==
    /\ run.app = "batch"
    /\ run.pc = "queued"
    /\ job' = [job EXCEPT !.started_at = "set", !.status = "downloading"]
    /\ run' = [run EXCEPT !.pc = "downloading"]
    /\ UNCHANGED <<settings, items, targets, sess, disk, app>>

\* process_job lines 239-252 and 268-269, _download_video lines 304-345:
\* the directory and the metadata files are written; yt-dlp fails and the
\* handler of process_job records it, or the video is there.  Then line 251
\* reads the shared settings dict as it is at that moment: the job is
\* TRANSCRIBING, with the status callback of line 253 next, or, when the
\* platform does not ask for a transcript, srt_path stays None and the job
\* is DONE.
JobDownload ==
    /\ run.app = "batch"
    /\ run.pc = "downloading"
    /\ \/ /\ job' = JobFailed(job, "Download failed")
          /\ run' = Aborted(run)
       \/ /\ ShouldGenerateSrt(job, settings)
          /\ job' = [job EXCEPT !.status = "transcribing"]
          /\ run' = [run EXCEPT !.pc = "transcribing"]
       \/ /\ ~ShouldGenerateSrt(job, settings)
          /\ job' = JobDone(job)
          /\ run' = [run EXCEPT !.pc = "skipped"]
    /\ UNCHANGED <<settings, items, targets, sess, disk, app>>

\* process_job lines 254-258, _generate_srt lines 358-378: Whisper fails or
\* no video file is found, or transcript.srt is written and exists and the
\* job is ANALYZING, with the status callback of line 259 next.
JobTranscribe ==
    /\ run.app = "batch"
    /\ run.pc = "transcribing"
    /\ \/ /\ job' = JobFailed(job, "No video file found for SRT generation")
          /\ run' = Aborted(run)
       \/ /\ job' = [job EXCEPT !.status = "analyzing"]
          /\ run' = [run EXCEPT !.pc = "analyzing"]
    /\ UNCHANGED <<settings, items, targets, sess, disk, app>>

\* process_job lines 261-263, _extract_concepts lines 380-386: the concepts
\* are extracted and the job is IMAGES, with the status callback of line 264
\* and the call of _download_images next.
JobAnalyze ==
    /\ run.app = "batch"
    /\ run.pc = "analyzing"
    /\ \/ /\ job' = JobFailed(job, "concept extraction failed")
          /\ run' = Aborted(run)
          /\ items' = items
       \/ /\ items' \in BatchConceptLists(settings.max_concepts_per_srt)
          /\ job' = [job EXCEPT !.status = "images"]
          /\ run' = [run EXCEPT !.pc = "start"]
    /\ UNCHANGED <<settings, targets, sess, disk, app>>

\* process_job lines 237, 253, 259 and 264, _generate_srt line 371, with
\* lines 272-275: the status callback of a stage raises after the status was
\* set; the call is inside the try block, so the handler sets ERROR.
JobStageCallbackRaised ==
    /\ run.app = "batch"
    /\ run.pc \in {"downloading", "transcribing", "analyzing", "start"}
    /\ job' = JobFailed(job, "status callback")
    /\ run' = Aborted(run)
    /\ UNCHANGED <<settings, items, targets, sess, disk, app>>

\* save_settings of the settings dialog, lines 1049-1064, on the UI thread
\* at any moment of the job: the operator has set the two transcript
\* checkboxes (lines 1062-1063) and the other fields hold what the dialog
\* showed; self.settings.update(new_settings) changes the dict that
\* JobProcessor.settings refers to, and the file is written next.
JobSaveSettings ==
    /\ run.app = "batch"
    /\ run.ui = "idle"
    /\ run.nsaves < MaxSaves
    /\ \E yt \in BOOLEAN, other \in BOOLEAN :
          LET new_settings ==
                 [FormSettings(settings, settings.images_per_concept,
                               settings.max_total_images,
                               settings.max_scrolls_per_keyword)
                     EXCEPT !.srt_youtube_enabled = yt,
                            !.srt_other_enabled = other]
          IN  /\ settings' = MergeAll(settings, new_settings)
              /\ run' = [run EXCEPT !.ui = "write",
                                    !.new_settings = new_settings,
                                    !.nsaves = @ + 1]
    /\ UNCHANGED <<items, targets, job, sess, disk, app>>

JobNext ==
    \/ JobStart
    \/ JobDownload
    \/ JobTranscribe
    \/ JobAnalyze
    \/ JobStageCallbackRaised
    \/ JobSaveSettings
    \/ SaveSettingsWrite
    \/ BatchTimestampsMissing
    \/ BatchTimestamps
    \/ BatchNextConcept
    \/ BatchCallbackRaised
    \/ BatchReadQuota
    \/ BatchTestCap
    \/ BatchClamp
    \/ BatchStartPrimary
    \/ BatchReportFallback
    \/ BatchStartFallback
    \/ BatchSkipFallback
    \/ BatchAfterFallback
    \/ BatchCapCheck
    \/ BatchLoopDone
    \/ BatchSessionRaised
    \/ JobDoneCallbackRaised
    \/ SessionStep

SpecJob == JobInit /\ [][JobNext]_vars

\* What a failed download, transcription, extraction or session leaves in
\* job.error.
StageErrors ==
    {"Download failed", "No video file found for SRT generation",
     "concept extraction failed", "no_search_input", "navigation",
     "load_state", "detail_lookup"}

\* What the handler of process_job leaves in job.error when the status
\* callback of the DONE update raised.
CallbackErrors == {"status callback"}

(* C23: a job whose platform asks for a transcript, and whose download,    *)
(* transcription, concept extraction and image sessions all complete       *)
(* without error, goes through the image harvest, timestamp extraction     *)
(* included, and ends DONE, not ERROR: a job is ERROR only with the error  *)
(* of a stage, of a session or of its status callback.                     *)
C23_SuccessfulJobDone ==
    /\ job.status = "error" => job.error \in StageErrors \cup CallbackErrors
    /\ job.status = "done" /\ ShouldGenerateSrt(job, settings)
          => run.pc = "done"

(* C24: the status of a job only moves forward along QUEUED, DOWNLOADING,  *)
(* TRANSCRIBING, ANALYZING, IMAGES, DONE, stages may be skipped; ERROR is  *)
(* entered only from a status that is not DONE or ERROR; a job that is     *)
(* DONE or ERROR keeps its status; completed_at is set exactly when the    *)
(* job is DONE or ERROR.                                                   *)
C24_StatusLifecycle ==
    [][LET rank(st) == CHOOSE n \in 1..7 : JobStatusOrder[n] = st
       IN  /\ job'.status # job.status
                => /\ job.status \notin {"done", "error"}
                   /\ rank(job'.status) > rank(job.status)
           /\ job.completed_at = "set" <=> job.status \in {"done", "error"}
           /\ job'.completed_at = "set" <=> job'.status \in {"done", "error"}
      ]_vars

----------------------------------------------------------------------------
(* SpecFolder: broll_core.safe_folder_name on strings, as sequences of     *)
(* characters.  items holds the argument, targets the results of the       *)
(* calls: of the argument and then of the first result.                    *)

MaxNameLen == 3         \* the varied part of an argument has 0..MaxNameLen characters
FillSlack == 1          \* a long argument is filled to NameLimit +- FillSlack

\* n copies of the character c.
Fill(c, n) == [i \in 1..n |-> c]

\* The documented example, "Ancient  Rome!!".
FolderExample ==
    <<"A", "n", "c", "i", "e", "n", "t", " ", " ", "R", "o", "m", "e", "!",
      "!">>

\* The arguments: every short string over FolderChars, alone and after a
\* filling of letters or of spaces about as long as the limit.
FolderInputs ==
    LET short == UNION {[1..n -> FolderChars] : n \in 0..MaxNameLen}
        fills == {<<>>} \cup
                 {Fill(c, n) : c \in {"a", " "},
                               n \in (NameLimit - FillSlack)..
                                     (NameLimit + FillSlack)}
    IN  {f \o p : f \in fills, p \in short} \cup {FolderExample}

FolderInit ==
    /\ settings = EmptyDict
    /\ items \in FolderInputs
    /\ targets = <<>>
    /\ run = [NoRun EXCEPT !.app = "folder", !.pc = "call"]
    /\ job = NoJob
    /\ sess = NoSession
    /\ disk = NoDisk
    /\ app = NoApp

\* srt_to_images.py line 40, app.py line 195, unified_app.py line 240:
\* safe_folder_name is applied to a keyword or topic.
ApplyFolderName ==
    /\ run.app = "folder"
    /\ run.pc = "call"
    /\ targets' = <<safe_folder_name(items)>>
    /\ run' = [run EXCEPT !.pc = "once"]
    /\ UNCHANGED <<settings, items, job, sess, disk, app>>

\* The folder name is given to safe_folder_name again.
ApplyFolderNameAgain ==
    /\ run.app = "folder"
    /\ run.pc = "once"
    /\ targets' = Append(targets, safe_folder_name(targets[1]))
    /\ run' = [run EXCEPT !.pc = "twice"]
    /\ UNCHANGED <<settings, items, job, sess, disk, app>>

FolderNext == ApplyFolderName \/ ApplyFolderNameAgain

SpecFolder == FolderInit /\ [][FolderNext]_vars

\* The characters of [a-z0-9_-].
SafeChars == LowerLetters \cup DecimalDigits \cup {"_", "-"}

\* The words of a string: its maximal runs of characters other than
\* whitespace.
RECURSIVE RefWords(_)
RefWords(s) ==
    LET letters == {i \in 1..Len(s) : s[i] \notin Whitespace}
    IN  IF letters = {} THEN <<>>
        ELSE LET first == CHOOSE i \in letters : \A j \in letters : i <= j
                 spaces == {i \in first..Len(s) : s[i] \in Whitespace}
                 stop == IF spaces = {} THEN Len(s) + 1
                         ELSE CHOOSE i \in spaces : \A j \in spaces : i <= j
             IN  <<SubSeq(s, first, stop - 1)>>
                    \o RefWords(SubSeq(s, stop, Len(s)))

\* The words joined by one underscore.
RECURSIVE RefJoin(_)
RefJoin(ws) ==
    IF ws = <<>> THEN <<>>
    ELSE IF Len(ws) = 1 THEN ws[1]
    ELSE ws[1] \o <<"_">> \o RefJoin(Tail(ws))

\* The lower case of each word.
RefLower(ws) == [k \in DOMAIN ws |-> LowerStr(ws[k])]

\* The argument holds only whitespace and characters whose lower case is
\* of [a-z0-9_-].
RefPlain(s) ==
    \A i \in 1..Len(s) :
       \/ s[i] \in Whitespace
       \/ \A k \in DOMAIN LowerChar(s[i]) : LowerChar(s[i])[k] \in SafeChars

\* Nothing of the argument remains: each of its characters is whitespace at
\* its start or end, or a character outside the kept ones.
RefNothingRemains(s) ==
    \A i \in 1..Len(s) :
       IF s[i] \in Whitespace
       THEN \/ \A j \in 1..i : s[j] \in Whitespace
            \/ \A j \in i..Len(s) : s[j] \in Whitespace
       ELSE \A k \in DOMAIN LowerChar(s[i]) : ~KeptChar(LowerChar(s[i])[k])

(* C25: for every argument, safe_folder_name returns a string of 1 to 80   *)
(* characters, all of [a-z0-9_-]; it returns "keyword" when no character   *)
(* remains; where the argument is words of allowed characters separated by *)
(* runs of whitespace, the result is the lower-case words joined by single *)
(* underscores, cut to 80; and safe_folder_name of the result is the       *)
(* result.                                                                 *)
C25_FolderNameSanitized ==
    /\ run.app = "folder" /\ run.pc \in {"once", "twice"}
          => LET out == targets[1]
             IN  /\ Len(out) >= 1
                 /\ Len(out) <= NameLimit
                 /\ \A i \in 1..Len(out) : out[i] \in SafeChars
                 /\ RefNothingRemains(items) => out = KeywordLiteral
                 /\ RefPlain(items) /\ RefWords(items) # <<>>
                       => LET joined == RefJoin(RefLower(RefWords(items)))
                          IN  out = SubSeq(joined, 1, Min(Len(joined), NameLimit))
                 /\ items = FolderExample
                       => out = <<"a", "n", "c", "i", "e", "n", "t", "_",
                                  "r", "o", "m", "e">>
    /\ run.app = "folder" /\ run.pc = "twice" => targets[2] = targets[1]

----------------------------------------------------------------------------
(* Further properties of the harvest loops.                                *)

\* The images the concept at hand has saved: what its primary session
\* returned, while its fallback runs, and what the running session saved.
SavedByConcept ==
    (IF run.pc = "fallback" THEN run.saved ELSE 0) + sess.saved

(* C26: a harvest run writes the images of each concept into a directory   *)
(* of that concept: when a session saves an image, the directory it writes *)
(* to holds no image of another concept of the run.                        *)
C26_DirectoryPerConcept ==
    [][/\ run.app \in {"batch", "cli", "gui"}
       /\ sess'.saved > sess.saved
       => Cardinality(FilesIn(sess.out_dir)) <= SavedByConcept]_vars

\* The concept whose attempts a harvest loop is running.
ConceptAtHand ==
    IF run.app = "batch" THEN items[run.i] ELSE targets[run.i][1]

(* C27: in every harvest loop, when the attempts of a concept have         *)
(* completed and before the next concept is started, the status            *)
(* collaborator is given that concept's name and the running total of      *)
(* saved images.                                                           *)
C27_ProgressAfterConcept ==
    [][/\ run.app \in {"batch", "cli", "gui"}
       /\ run.pc \in {"primary", "fallback"}
       /\ run'.i = run.i + 1
       => /\ run'.reported.kind = "Saved"
          /\ run'.reported.concept = ConceptAtHand
          /\ run'.reported.total = run'.total]_vars

(* C28: the values of images_per_concept, max_total_images and            *)
(* max_scrolls_per_keyword that the harvest loop of a batch job uses are   *)
(* the same at every concept iteration of the job, also when the operator  *)
(* saves the settings dialog while the job runs: an iteration after the    *)
(* first reads what the iteration before it read.                          *)
C28_BudgetFixedDuringRun ==
    [][/\ run.app = "batch"
       /\ run.pc \in {"loop", "quota", "cap", "clamp", "enter", "wiki",
                       "check"}
       /\ run.i > 1
       /\ run'.i = run.i
       => run'.budget = run.budget]_vars

(* C29: the fallback session of a concept starts its harvest with an empty *)
(* set of seen URLs, whatever the primary session of the concept saved;    *)
(* the rejection of seen URLs works within one session only.               *)
C29_FallbackStartsUnseen ==
    [][/\ run.app = "batch"
       /\ run.pc = "fallback"
       /\ sess.pc = "found"
       /\ sess'.pc = "cycle"
       => sess'.seen = {}]_vars

\* The fallback session has written the image of a URL whose image the
\* primary session of the same concept had written.
C29_Witness ==
    /\ run.app = "batch"
    /\ run.pc = "fallback"
    /\ \E k \in DOMAIN sess.written : sess.written[k] \in run.primary_urls

----------------------------------------------------------------------------
(* SpecSanity: keyword extraction from a tagged document, and the script   *)
(* test_sanity.py that imports extract_keywords and calls it.  A document  *)
(* is what spaCy's pipeline returns for a text: its tokens with lemma_,    *)
(* pos_ and is_stop; strings are sequences of characters.  items is the    *)
(* document, settings.max_keywords the cut, targets the returned list.     *)

SanityMaxKeywords == 10     \* test_sanity.py line 6: max_keywords=10

Token(lemma, pos, is_stop) == [lemma |-> lemma, pos |-> pos, is_stop |-> is_stop]

\* broll_core.py line 127: token.lemma_.strip().lower().
LemmaOf(token) == LowerStr(RStrip(LStrip(token.lemma)))

\* broll_core.py line 130: re.match(r"^[a-z0-9][a-z0-9\-\_ ]*$", t).
LemmaPattern(t) ==
    /\ t # <<>>
    /\ t[1] \in LowerLetters \cup DecimalDigits
    /\ \A i \in 2..Len(t) :
          t[i] \in LowerLetters \cup DecimalDigits \cup {"-", "_", " "}

\* broll_core.py lines 123-131: the tokens that are counted.
TokenCounts(token) ==
    /\ ~token.is_stop
    /\ token.pos \in {"NOUN", "PROPN"}
    /\ Len(LemmaOf(token)) >= 3
    /\ LemmaPattern(LemmaOf(token))

\* broll_core.py lines 121-132: freq, the occurrences of each counted lemma.
Freq(doc) ==
    [t \in {LemmaOf(doc[i]) : i \in {j \in DOMAIN doc : TokenCounts(doc[j])}} |->
        Cardinality({i \in DOMAIN doc :
                        TokenCounts(doc[i]) /\ LemmaOf(doc[i]) = t})]

\* The characters of a counted lemma in the order of their code points.
CodeOrder ==
    <<" ", "-", "0", "1", "2", "3", "4", "5", "6", "7", "8", "9", "_">>
        \o LowerAlphabet

CodeRank(c) == CHOOSE i \in DOMAIN CodeOrder : CodeOrder[i] = c

\* The order of str: by code point, a proper prefix first.
RECURSIVE StrLess(_, _)
StrLess(a, b) ==
    IF b = <<>> THEN FALSE
    ELSE IF a = <<>> THEN TRUE
    ELSE IF a[1] # b[1] THEN CodeRank(a[1]) < CodeRank(b[1])
    ELSE StrLess(Tail(a), Tail(b))

\* broll_core.py line 135: key=lambda kv: (-kv[1], kv[0]).
KeyLess(freq, a, b) ==
    \/ freq[a] > freq[b]
    \/ freq[a] = freq[b] /\ StrLess(a, b)

\* broll_core.py line 135: sorted(freq.items(), key=...), the keys of it.
RECURSIVE SortedKeys(_, _)
SortedKeys(freq, keys) ==
    IF keys = {} THEN <<>>
    ELSE LET first == CHOOSE x \in keys :
                         \A y \in keys \ {x} : KeyLess(freq, x, y)
         IN  <<first>> \o SortedKeys(freq, keys \ {first})

\* broll_core.py lines 119-135: the counted lemmas of a document, sorted.
SortedLemmas(doc) == SortedKeys(Freq(doc), DOMAIN Freq(doc))

\* The names that `from <module> import <name>` finds in a module: what the
\* module defines and what it has imported itself (app.py lines 1-16 and its
\* class App; broll_core.py, its functions).
ModuleNames ==
    [app |-> {"os", "sys", "asyncio", "tk", "filedialog", "messagebox", "ttk",
              "APP_DIR", "load_settings", "save_settings", "ensure_dir",
              "safe_folder_name", "generate_srt",
              "compute_keyword_image_targets", "google_images_download",
              "App"},
     broll_core |-> {"APP_DIR", "load_settings", "save_settings",
                     "ensure_dir", "safe_folder_name", "generate_srt",
                     "extract_keywords", "compute_keyword_image_targets",
                     "google_images_download"}]

\* Where a caller takes extract_keywords from: test_sanity.py line 3 imports
\* it from app; compute_keyword_image_targets (broll_core.py line 363) finds
\* it in its own module.
LookupModule == [test_sanity |-> "app", broll_core |-> "broll_core"]

\* The sentences of the scenario as spaCy tags them.  The tag of a
\* capitalised word is the tagger's choice between a proper noun and the
\* other reading of the word; tags is that choice for the four words where
\* the small English model can go either way.
Sentence1(tags) ==
    << Token(<<"t", "h", "e">>, "DET", TRUE),
       Token(<<"R", "o", "m", "a", "n">>, tags.roman, FALSE),
       Token(<<"E", "m", "p", "i", "r", "e">>, tags.empire, FALSE),
       Token(<<"c", "o", "n", "q", "u", "e", "r">>, "VERB", FALSE),
       Token(<<"G", "a", "u", "l">>, tags.gaul, FALSE),
       Token(<<".">>, "PUNCT", FALSE) >>

Sentence2(tags) ==
    << Token(<<"J", "u", "l", "i", "u", "s">>, "PROPN", FALSE),
       Token(<<"C", "a", "e", "s", "a", "r">>, "PROPN", FALSE),
       Token(<<"l", "e", "a", "d">>, "VERB", FALSE),
       Token(<<"t", "h", "e">>, "DET", TRUE),
       Token(<<"a", "r", "m", "y">>, tags.army, FALSE),
       Token(<<".">>, "PUNCT", FALSE) >>

\* test_sanity.py line 5 has a third sentence.
Sentence3 ==
    << Token(<<"R", "o", "m", "e">>, "PROPN", FALSE),
       Token(<<"e", "x", "p", "a", "n", "d">>, "VERB", FALSE),
       Token(<<"a", "c", "r", "o", "s", "s">>, "ADP", TRUE),
       Token(<<"E", "u", "r", "o", "p", "e">>, "PROPN", FALSE),
       Token(<<".">>, "PUNCT", FALSE) >>

Taggings ==
    [roman : {"PROPN", "ADJ"}, empire : {"PROPN", "NOUN"},
     gaul : {"PROPN", "NOUN"}, army : {"NOUN", "VERB"}]

SanityDocs ==
    {Sentence1(t) \o Sentence2(t) : t \in Taggings}
    \cup {Sentence1(t) \o Sentence2(t) \o Sentence3 : t \in Taggings}

SanityInit ==
    /\ settings \in {[DEFAULT_SETTINGS EXCEPT !.max_keywords = n] :
                        n \in {1, SanityMaxKeywords}}
    /\ items \in SanityDocs
    /\ targets = <<>>
    /\ run \in {[NoRun EXCEPT !.app = a, !.pc = "start"] :
                   a \in DOMAIN LookupModule}
    /\ job = NoJob
    /\ sess = NoSession
    /\ disk = NoDisk
    /\ app = NoApp

\* The assertion of test_sanity.py line 8.
SanityAssertion(keywords) ==
    \E k \in DOMAIN keywords :
       keywords[k] \in {<<"r", "o", "m", "a", "n">>,
                        <<"e", "m", "p", "i", "r", "e">>,
                        <<"r", "o", "m", "e">>}

\* test_sanity.py, the whole script: `from app import extract_keywords`
\* (line 3) raises ImportError when the module has no such name; else the
\* call of line 6, the assertion of line 8 and "OK".
SanityScript ==
    /\ run.app = "test_sanity"
    /\ run.pc = "start"
    /\ IF "extract_keywords" \notin ModuleNames[LookupModule[run.app]]
       THEN /\ run' = [run EXCEPT !.pc = "ImportError"]
            /\ targets' = targets
       ELSE /\ targets' = extract_keywords(SortedLemmas(items),
                                           settings.max_keywords)
            /\ run' = [run EXCEPT
                          !.pc = IF SanityAssertion(targets')
                                 THEN "OK" ELSE "AssertionError"]
    /\ UNCHANGED <<settings, items, job, sess, disk, app>>

\* broll_core.py line 363: compute_keyword_image_targets calls
\* extract_keywords, a name of its own module, on the text.
CallExtractKeywords ==
    /\ run.app = "broll_core"
    /\ run.pc = "start"
    /\ "extract_keywords" \in ModuleNames[LookupModule[run.app]]
    /\ targets' = extract_keywords(SortedLemmas(items), settings.max_keywords)
    /\ run' = [run EXCEPT !.pc = "returned"]
    /\ UNCHANGED <<settings, items, job, sess, disk, app>>

SanityNext ==
    \/ SanityScript
    \/ CallExtractKeywords

SpecSanity == SanityInit /\ [][SanityNext]_vars

\* The concepts the scenario expects one of.
ScenarioConcepts ==
    {<<"r", "o", "m", "a", "n">>, <<"e", "m", "p", "i", "r", "e">>,
     <<"r", "o", "m", "e">>, <<"c", "a", "e", "s", "a", "r">>}

(* C30: the sanity test, which takes extract_keywords from the app module  *)
(* and calls it on the scenario text with a maximum of 10, gets past its   *)
(* import and receives a list that holds, in lower case, at least one of   *)
(* roman, empire, rome, caesar.                                            *)
C30_SanityScenario ==
    /\ run.app = "test_sanity"
    /\ settings.max_keywords = SanityMaxKeywords
    /\ run.pc # "start"
    => /\ run.pc = "OK"
       /\ \E k \in DOMAIN targets : LowerStr(targets[k]) \in ScenarioConcepts

(* C31: every primary session the batch loop starts for a concept requests *)
(* min(images_per_concept, max_total_images - total saved) images, and     *)
(* when that value is not positive the loop stops without starting a       *)
(* session for this or a later concept.                                    *)
C31_EffectiveNeed ==
    [][/\ run.app = "batch"
       /\ run.pc = "enter"
       /\ run'.pc # "enter"
       => LET eff == Min(settings.images_per_concept,
                         settings.max_total_images - run.total)
          IN  IF eff <= 0
              THEN run'.pc = "done" /\ ~SessionEntered
              ELSE SessionEntered /\ sess'.images_needed = eff]_vars

\* The session is inside a scroll cycle: past the thumbnail lookup of
\* lines 222-240 and before the scroll of lines 323-325.
InCycle(s) == s.pc \in {"thumb", "pane", "fetch", "fetched"}

(* C32: an invocation of google_images_download performs at most           *)
(* max_scrolls scroll cycles; once the saved count has reached             *)
(* images_needed it clicks, fetches and scrolls no more and returns; and   *)
(* with every browser and network step returning, an invocation that was   *)
(* entered returns or raises.                                              *)
C32_BoundedScrolling ==
    /\ [](/\ sess.scroll_i <= sess.max_scrolls
          /\ InCycle(sess) => sess.scroll_i < sess.max_scrolls
          /\ (QuotaMet(sess) /\ sess.images_needed > 0)
                => sess.pc \in {"thumb", "returned"})
    /\ [][(sess.pc = "thumb" /\ QuotaMet(sess))
             => (sess'.pc = "returned" /\ sess'.scroll_i = sess.scroll_i)]_vars
    /\ (sess.pc = "entry") ~> (sess.pc \in {"returned", "raised"})

\* The invocation used every scroll cycle it was allowed and returned short
\* of its quota.
C32_Witness ==
    /\ sess.pc = "returned"
    /\ sess.max_scrolls = 2
    /\ sess.scroll_i = sess.max_scrolls
    /\ sess.saved = 1
    /\ sess.images_needed = 2

(* C33: whenever the allocator extracted at least one concept and          *)
(* max_total_images is at least 1, the sum of the quotas it returns is at  *)
(* least min(min_images_per_srt, max_total_images).                        *)
C33_AllocatorMinimum ==
    /\ run.pc = "planned"
    /\ extract_keywords(items, settings.max_keywords) # <<>>
    /\ settings.max_total_images >= 1
    => SumNeeds(targets) >=
          Min(settings.min_images_per_srt, settings.max_total_images)

\* The soft minimum is what lifts the sum: the default quotas of the
\* concepts add up to less, and the hard cap leaves room for it.
C33_Witness ==
    /\ run.pc = "planned"
    /\ Len(targets) >= 2
    /\ Len(targets) * settings.images_per_keyword < settings.min_images_per_srt
    /\ settings.min_images_per_srt < settings.max_total_images
    /\ SumNeeds(targets) >= settings.min_images_per_srt

(* C34: within one invocation of google_images_download every candidate    *)
(* URL is requested over HTTP at most once, whether its fetch was stored,  *)
(* was rejected or raised; a URL whose fetch failed is not requested       *)
(* again in the session.                                                   *)
C34_OneFetchPerUrl ==
    \A u \in BagToSet(sess.requested) : CopiesIn(u, sess.requested) <= 1

\* Two URLs were requested and neither fetch was stored; the session went
\* on to a second scroll cycle, whose candidates are drawn from the same
\* URLs, and has returned.
C34_Witness ==
    /\ sess.pc = "returned"
    /\ sess.scroll_i >= 1
    /\ sess.saved = 0
    /\ Cardinality(BagToSet(sess.requested)) = 2
    /\ sess.seen = BagToSet(sess.requested)

\* The number of images the batch run has saved so far, over its concepts
\* and over the primary and fallback attempts of the concept at hand.
RunSaveIndex == run.total + SavedByConcept

\* The places of the batch loop between its first and its last concept.
ConceptLoop ==
    {"loop", "quota", "cap", "clamp", "enter", "primary", "wiki", "fallback",
     "check"}

\* The name of a saved file by the run-wide index j (0-based): the j-th cue
\* start while the timestamps last, concept and session counter afterwards.
NameByIndex(j, s) ==
    IF j < Len(run.timestamps)
    THEN <<run.timestamps[j + 1], "_">>
            \o SafeKeyword(s.keyword, StampedNameLimit) \o <<".jpg">>
    ELSE SafeKeyword(s.keyword, CounterNameLimit)
            \o <<"_">> \o Pad2(s.saved + 1) \o <<".jpg">>

(* C35: in a batch harvest the j-th image saved in the run, counted from 0 *)
(* across concepts and across primary and fallback attempts, is named with *)
(* timestamps[j] while j is below the number of timestamps and with the    *)
(* concept-and-counter pattern afterwards; the index grows by one with     *)
(* every save and only then, so no timestamp index names two saved files.  *)
C35_TimestampNaming ==
    [][run.app = "batch" /\ run.pc \in ConceptLoop
       => /\ sess'.saved > sess.saved
             => /\ disk'.files = disk.files \cup
                      {[dir |-> BatchImagesDir,
                        name |-> NameByIndex(RunSaveIndex, sess)]}
                /\ RunSaveIndex' = RunSaveIndex + 1
          /\ ~(sess'.saved > sess.saved)
             => (run'.pc \in ConceptLoop => RunSaveIndex' = RunSaveIndex)]_vars

\* The primary session of a concept saved the image of index 0 under the
\* first timestamp, and the fallback session of the same concept saved the
\* image of index 1 under the second.
C35_Witness ==
    /\ run.app = "batch"
    /\ run.pc = "fallback"
    /\ run.saved = 1
    /\ sess.saved = 1
    /\ Len(run.timestamps) >= 2
    /\ \E f, g \in disk.files :
          /\ f.name[1] = run.timestamps[1]
          /\ g.name[1] = run.timestamps[2]
          /\ g.name = <<run.timestamps[2], "_">>
                         \o SafeKeyword(sess.keyword, StampedNameLimit)
                         \o <<".jpg">>

\* The job has reached a final status.
Finished(j) == app.status[j] \in {"done", "error"}

(* C36: every job put on the queue is eventually taken by the worker loop  *)
(* and reaches DONE or ERROR; the jobs are taken in the order they were    *)
(* added and one at a time; and after a job has ended in ERROR, also with  *)
(* an exception that escaped process_job, the jobs still queued are taken  *)
(* and processed to DONE or ERROR as well.                                 *)
C36_QueueLiveness ==
    /\ \A j \in JobIds : (app.status[j] = "queued") ~> Finished(j)
    /\ (app.escaped /\ app.queue # <<>>) ~> (app.queue = <<>>)
    /\ [][/\ app'.queue # app.queue /\ Len(app'.queue) < Len(app.queue)
             => /\ app.processing = {}
                /\ app'.queue = Tail(app.queue)
                /\ app'.job = Head(app.queue)
                /\ \A k \in JobIds :
                      app.status[k] = "queued" => k >= app'.job
          /\ \A j \in app'.processing \ app.processing :
                app.processing = {} /\ j = app.job]_vars

----------------------------------------------------------------------------
(* SpecAddJob: the Add Job button of the batch app.  app.jobs is the dict   *)
(* self.jobs, app.queue the job queue, app.clock the second time.time()    *)
(* is in, app.hash the values of hash() on the URLs in this process (str   *)
(* hashes are salted per process).  A job carries the serial number of its *)
(* creation, which stands for the identity of the Job object.              *)

\* The settings of an entry point that reads none of them.
NoSettings ==
    [max_keywords |-> 0, images_per_keyword |-> 0, max_total_images |-> 0,
     min_images_per_srt |-> 0, max_scrolls_per_keyword |-> 0,
     images_per_concept |-> 0, max_concepts_per_srt |-> 0]

AddMaxClicks == 2       \* Add Job is clicked at most AddMaxClicks times
AddMaxLines == 2        \* the URL box holds 1..AddMaxLines lines
AddMaxSeconds == 1      \* the clock moves on at most AddMaxSeconds seconds
HashModulus == 10000    \* line 70: hash(self.url) % 10000

\* URLs the operator pastes, as strings of characters: a TikTok video, a
\* YouTube video, and a page of another site whose query names tiktok.com.
TikTokUrl ==
    <<"h", "t", "t", "p", "s", ":", "/", "/", "t", "i", "k", "t", "o", "k",
      ".", "c", "o", "m", "/", "@", "a", "/", "1">>

YouTubeUrl ==
    <<"h", "t", "t", "p", "s", ":", "/", "/", "y", "o", "u", "t", "u", ".",
      "b", "e", "/", "2">>

OtherUrl ==
    <<"h", "t", "t", "p", "s", ":", "/", "/", "x", ".", "o", "r", "g", "/",
      "?", "u", "=", "t", "i", "k", "t", "o", "k", ".", "c", "o", "m">>

JobUrls == {TikTokUrl, YouTubeUrl, OtherUrl}

\* Values hash() may take on a URL; two of them agree modulo HashModulus.
HashValues == {7, 4242, 10007}

\* Lines 659-664: the domains of each platform.
PlatformDomains ==
    [tiktok |-> {<<"t", "i", "k", "t", "o", "k", ".", "c", "o", "m">>,
                 <<"v", "m", ".", "t", "i", "k", "t", "o", "k", ".", "c",
                   "o", "m">>},
     youtube |-> {<<"y", "o", "u", "t", "u", "b", "e", ".", "c", "o", "m">>,
                  <<"y", "o", "u", "t", "u", ".", "b", "e">>},
     instagram |-> {<<"i", "n", "s", "t", "a", "g", "r", "a", "m", ".", "c",
                     "o", "m">>},
     other |-> {}]

\* Line 671, `domain in url` on strings: domain is part of url, anywhere.
Contains(url, domain) ==
    \E i \in 0..(Len(url) - Len(domain)) :
       SubSeq(url, i + 1, i + Len(domain)) = domain

\* Lines 670-674: the URLs of the list that the platform accepts.
MatchingUrls(platform, all_urls) ==
    LET Accepted(url) ==
           \/ platform = "other"
           \/ \E domain \in PlatformDomains[platform] : Contains(url, domain)
    IN  SelectSeq(all_urls, Accepted)

\* Job.__post_init__, lines 68-70: the id given to a job created with id="".
JobId(clock, hash, url) == <<clock, hash[url] % HashModulus>>

\* The readings of time.time() by n jobs created one after the other, from
\* the second `clock` on: the clock may reach the next second between two
\* of them.
ClockReadings(clock, n) ==
    {t \in [1..n -> clock..AddMaxSeconds] :
        \A k \in 1..(n - 1) : t[k] <= t[k + 1]}

\* Lines 683-697: a Job per matching URL, each with the id made of its own
\* reading of the clock, stored in self.jobs under its id and put on the
\* queue.  A later job with the id of an earlier one takes its place in
\* the dict.
AddedJobs(a, urls, times) ==
    [k \in 1..Len(urls) |->
        [id |-> JobId(times[k], a.hash, urls[k]), url |-> urls[k],
         serial |-> Len(a.queue) + k]]

StoreJobs(jobs, added) ==
    LET ids == {added[k].id : k \in DOMAIN added}
        Last(id) == CHOOSE k \in DOMAIN added :
                       /\ added[k].id = id
                       /\ \A m \in DOMAIN added : added[m].id = id => m <= k
    IN  [id \in DOMAIN jobs \cup ids |->
            IF id \in ids THEN added[Last(id)] ELSE jobs[id]]

AddJobInit ==
    /\ settings = NoSettings
    /\ items = <<>>
    /\ targets = <<>>
    /\ run = [NoRun EXCEPT !.app = "add_job", !.pc = "mainloop"]
    /\ job = NoJob
    /\ sess = NoSession
    /\ disk = NoDisk
    /\ \E h \in [JobUrls -> HashValues] :
          app = [jobs |-> EmptyDict, queue |-> <<>>, clock |-> 0,
                 clicks |-> 0, hash |-> h]

\* _add_job, lines 627-714, with a URL box of non-blank lines and an output
\* directory chosen: without a matching URL an error box is shown and
\* nothing is added.
AddJobClicked ==
    /\ run.app = "add_job"
    /\ app.clicks < AddMaxClicks
    /\ \E platform \in Platforms, n \in 1..AddMaxLines :
       \E all_urls \in [1..n -> JobUrls] :
          LET matching_urls == MatchingUrls(platform, all_urls)
          IN  \E times \in ClockReadings(app.clock, Len(matching_urls)) :
                 LET added == AddedJobs(app, matching_urls, times)
                 IN  app' = [app EXCEPT
                                !.clicks = @ + 1,
                                !.jobs = StoreJobs(@, added),
                                !.queue = @ \o added,
                                !.clock = IF times = <<>> THEN @
                                          ELSE times[Len(times)]]
    /\ UNCHANGED <<settings, items, targets, run, job, sess, disk>>

\* time.time() reaches the next second.
ClockTick ==
    /\ run.app = "add_job"
    /\ app.clock < AddMaxSeconds
    /\ app' = [app EXCEPT !.clock = @ + 1]
    /\ UNCHANGED <<settings, items, targets, run, job, sess, disk>>

AddJobNext == AddJobClicked \/ ClockTick

SpecAddJob == AddJobInit /\ [][AddJobNext]_vars

(* C37: after any sequence of Add Job actions every job that was enqueued   *)
(* has its own entry in the jobs table: the ids of distinct jobs are       *)
(* distinct, also for the same URL added within the same second, and the   *)
(* number of tracked jobs equals the number of jobs enqueued.              *)
C37_JobsTableMatchesQueue ==
    run.app = "add_job"
    => /\ \A k \in DOMAIN app.queue :
             /\ app.queue[k].id \in DOMAIN app.jobs
             /\ app.jobs[app.queue[k].id] = app.queue[k]
       /\ \A k, m \in DOMAIN app.queue :
             app.queue[k].id = app.queue[m].id => k = m
       /\ Cardinality(DOMAIN app.jobs) = Len(app.queue)

----------------------------------------------------------------------------
(* Further properties of a batch job.                                      *)

\* The platform and the settings, as they are when line 251 is reached, ask
\* for a transcript of the job.
TranscriptWanted ==
    \/ job.platform \in {"tiktok", "instagram"}
    \/ job.platform = "youtube" /\ settings.srt_youtube_enabled
    \/ job.platform = "other" /\ settings.srt_other_enabled

(* C38: when a job leaves DOWNLOADING without an error, a TikTok or        *)
(* Instagram job becomes TRANSCRIBING; a YouTube job does so only if       *)
(* srt_youtube_enabled is set at that moment and a job of another platform *)
(* only if srt_other_enabled is set, whatever a Save of the dialog set     *)
(* before or sets after; the transcribe, analyze and image stages are      *)
(* entered in this order only, each from the stage before it; and a job    *)
(* whose transcript is not generated goes from DOWNLOADING directly to     *)
(* DONE and starts no image session.                                       *)
C38_TranscriptGating ==
    [][run.app = "batch"
       => /\ (job.status = "downloading"
                 /\ job'.status \notin {"downloading", "error"})
             => IF TranscriptWanted
                THEN job'.status = "transcribing"
                ELSE /\ job'.status = "done"
                     /\ run'.pc = "skipped"
                     /\ run'.sessions = 0
          /\ (job.status = "transcribing"
                 /\ job'.status \notin {"transcribing", "error"})
             => job'.status = "analyzing"
          /\ (job.status = "analyzing"
                 /\ job'.status \notin {"analyzing", "error"})
             => job'.status = "images" /\ run'.pc = "start"
          /\ (job'.status = "transcribing" /\ job.status # "transcribing")
             => job.status = "downloading" /\ TranscriptWanted
          /\ (job'.status = "analyzing" /\ job.status # "analyzing")
             => job.status = "transcribing"
          /\ (job'.status = "images" /\ job.status # "images")
             => job.status = "analyzing"
          /\ job.status \in {"queued", "downloading", "transcribing",
                              "analyzing"}
             => ~SessionEntered /\ sess' = NoSession /\ run'.sessions = 0
          /\ run.pc = "skipped"
             => /\ run'.pc \in {"skipped", "aborted"}
                /\ ~SessionEntered
                /\ sess' = NoSession
                /\ run'.sessions = 0]_vars

\* A YouTube job that started with srt_youtube_enabled not set, as
\* settings.json still has it: the operator saved the dialog with the
\* checkbox set while the video was downloaded, and the job is in its image
\* stage and has saved an image.
C38_Witness ==
    /\ run.app = "batch"
    /\ job.platform = "youtube"
    /\ settings.srt_youtube_enabled
    /\ ~settings.srt_other_enabled
    /\ run.ui = "write"
    /\ disk.settings_json =
          WriteSettings([run.new_settings EXCEPT
                            !.srt_youtube_enabled = FALSE])
    /\ job.status = "images"
    /\ sess.saved = 1

----------------------------------------------------------------------------
(* SpecDownload: tinker_video_collector/downloader.download_all on a list  *)
(* of links.  items holds the links as strings of characters, targets the  *)
(* yt-dlp invocations made so far, run the loop index and the two          *)
(* counters.  Every append to the log file opens the file and writes one   *)
(* line (utils.py lines 39-41) and can raise: OSError when the file cannot *)
(* be opened or written, UnicodeEncodeError when the link holds a lone     *)
(* surrogate.                                                              *)

MaxLinks == 3           \* the list has 0..MaxLinks links

\* The lines a list is made of: empty, blank, and two links with blanks
\* around them.
LinkLines ==
    {<<>>, <<" ">>, <<" ", "a">>, <<"b", "\t">>}

\* How subprocess.run of line 41 ends: yt-dlp exits with 0 or with another
\* code, the executable is missing, or another exception is raised.
DownloadOutcomes == {"exit_0", "exit_1", "FileNotFoundError", "Exception"}

\* The append_log calls of one iteration: the START line (line 23, before
\* the try), the output of yt-dlp (line 42), the DONE or FAIL line (lines
\* 46 and 49, after the counter is incremented) and the ERROR line of a
\* handler (lines 52 and 55).
AppendCalls == {"start", "output", "counted", "handler"}

\* Line 19: link.strip().
StripStr(s) == RStrip(LStrip(s))

\* Lines 44-49: success += 1 for exit code 0, fail += 1 for another code;
\* lines 50-55: fail += 1 for FileNotFoundError and for any other exception.
Counted(r, outcome) ==
    IF outcome = "exit_0" THEN [r EXCEPT !.success = @ + 1]
    ELSE [r EXCEPT !.fail = @ + 1]

\* Lines 50-55: an exception raised in the try is counted as a failure and
\* the handler logs its ERROR line; when that append raises, the exception
\* leaves download_all.
Handled(r, logged) ==
    IF logged["handler"]
    THEN [r EXCEPT !.fail = @ + 1, !.i = @ + 1]
    ELSE [r EXCEPT !.fail = @ + 1, !.pc = "raised"]

\* Lines 23-55 for a non-blank link: the counters and the position after
\* the iteration, subprocess.run ending with `outcome` and each append_log
\* succeeding or not as `logged` says.
AfterLink(r, outcome, logged) ==
    IF ~logged["start"] THEN [r EXCEPT !.pc = "raised"]
    ELSE IF outcome \in {"FileNotFoundError", "Exception"}
    THEN Handled(r, logged)
    ELSE IF ~logged["output"] THEN Handled(r, logged)
    ELSE IF logged["counted"] THEN [Counted(r, outcome) EXCEPT !.i = @ + 1]
    ELSE Handled(Counted(r, outcome), logged)

DownloadInit ==
    /\ settings = NoSettings
    /\ items \in UNION {[1..n -> LinkLines] : n \in 0..MaxLinks}
    /\ targets = <<>>
    /\ run = [app |-> "download_all", pc |-> "loop", i |-> 1,
              success |-> 0, fail |-> 0]
    /\ job = NoJob
    /\ sess = NoSession
    /\ disk = NoDisk
    /\ app = NoApp

\* Lines 18-55: one iteration of the loop; a blank link is passed over, any
\* other is logged and, when the START line was written, handed to yt-dlp
\* and counted.
DownloadLink ==
    /\ run.app = "download_all"
    /\ run.pc = "loop"
    /\ run.i <= Len(items)
    /\ LET link == StripStr(items[run.i])
       IN  IF link = <<>>
           THEN /\ run' = [run EXCEPT !.i = @ + 1]
                /\ targets' = targets
           ELSE \E outcome \in DownloadOutcomes,
                   logged \in [AppendCalls -> BOOLEAN] :
                   /\ run' = AfterLink(run, outcome, logged)
                   /\ targets' = IF logged["start"]
                                 THEN Append(targets, [link |-> link,
                                                       outcome |-> outcome])
                                 ELSE targets
    /\ UNCHANGED <<settings, items, job, sess, disk, app>>

\* Line 57: return success, fail.
DownloadReturn ==
    /\ run.app = "download_all"
    /\ run.pc = "loop"
    /\ run.i > Len(items)
    /\ run' = [run EXCEPT !.pc = "returned"]
    /\ UNCHANGED <<settings, items, targets, job, sess, disk, app>>

DownloadNext == DownloadLink \/ DownloadReturn

SpecDownload == DownloadInit /\ [][DownloadNext]_vars

\* The links of a list that hold a character other than white space, in
\* the order of the list.
NonBlankLinks(links) ==
    LET HasText(l) == \E k \in DOMAIN l : l[k] \notin Whitespace
    IN  SelectSeq(links, HasText)

(* C39: download_all attempts every non-blank link exactly once, in list   *)
(* order, whatever the attempts before it ended with (non-zero exit,       *)
(* missing yt-dlp, any exception): no exception leaves the loop, and it    *)
(* returns (success, fail) with success + fail equal to the number of      *)
(* non-blank links.                                                        *)
C39_DownloadCounts ==
    run.app = "download_all"
    => /\ run.pc # "raised"
       /\ run.pc = "returned"
          => LET wanted == NonBlankLinks(items)
             IN  /\ Len(targets) = Len(wanted)
                 /\ \A k \in DOMAIN targets :
                       targets[k].link = StripStr(wanted[k])
                 /\ run.success + run.fail = Len(wanted)
                 /\ run.success = Cardinality({k \in DOMAIN targets :
                                                  targets[k].outcome = "exit_0"})

----------------------------------------------------------------------------
(* SpecCollector: the window of tinker_video_collector/app.py.  app.go_btn *)
(* is the state of the GO button, app.workers the position of each worker  *)
(* thread that on_go has started, in the order they were started.          *)

MaxRuns == 3            \* on_go starts at most MaxRuns workers

RunIds == 1..MaxRuns

\* The workers that have been started and have not ended.
RunningWorkers(a) ==
    {w \in RunIds : a.workers[w] \in {"download", "whisper"}}

\* on_go, lines 99-147: without links or without a base folder an error box
\* is shown and nothing else happens; else the run folder and its files
\* are written, the button is disabled and a worker thread is started.
on_go(a, links_raw, base_dir) ==
    IF StripStr(links_raw) = <<>> \/ StripStr(base_dir) = <<>>
    THEN a
    ELSE LET w == CHOOSE n \in RunIds :
                     /\ a.workers[n] = "none"
                     /\ \A m \in 1..(n - 1) : a.workers[m] # "none"
         IN  [a EXCEPT !.go_btn = "disabled", !.workers[w] = "download"]

CollectorInit ==
    /\ settings = NoSettings
    /\ items = <<>>
    /\ targets = <<>>
    /\ run = [NoRun EXCEPT !.app = "collector", !.pc = "mainloop"]
    /\ job = NoJob
    /\ sess = NoSession
    /\ disk = NoDisk
    /\ app = [go_btn |-> "normal", workers |-> [w \in RunIds |-> "none"]]

\* Line 58: the GO button calls on_go; a disabled ttk button ignores the
\* click.
ClickGo ==
    /\ run.app = "collector"
    /\ app.go_btn = "normal"
    /\ app.workers[MaxRuns] = "none"
    /\ \E links_raw \in LinkLines, base_dir \in LinkLines :
          app' = on_go(app, links_raw, base_dir)
    /\ UNCHANGED <<settings, items, targets, run, job, sess, disk>>

\* Line 29: the <Return> binding of the window calls on_go, whatever the
\* state of the button.
PressEnter ==
    /\ run.app = "collector"
    /\ app.workers[MaxRuns] = "none"
    /\ \E links_raw \in LinkLines, base_dir \in LinkLines :
          app' = on_go(app, links_raw, base_dir)
    /\ UNCHANGED <<settings, items, targets, run, job, sess, disk>>

\* Lines 131-137: the worker has logged its header and download_all has
\* returned, or one of them raised.
WorkerDownloaded ==
    /\ run.app = "collector"
    /\ \E w \in RunIds :
          /\ app.workers[w] = "download"
          /\ \/ app' = [app EXCEPT !.workers[w] = "whisper"]
             \/ app' = [app EXCEPT !.workers[w] = "raised",
                                   !.go_btn = "normal"]
    /\ UNCHANGED <<settings, items, targets, run, job, sess, disk>>

\* Lines 139-145: whisper_srt_for_folder returned or raised; the handler
\* queues the error message, and `finally` sets the button to normal.
WorkerEnd ==
    /\ run.app = "collector"
    /\ \E w \in RunIds, how \in {"done", "raised"} :
          /\ app.workers[w] = "whisper"
          /\ app' = [app EXCEPT !.workers[w] = how, !.go_btn = "normal"]
    /\ UNCHANGED <<settings, items, targets, run, job, sess, disk>>

CollectorNext ==
    \/ ClickGo
    \/ PressEnter
    \/ WorkerDownloaded
    \/ WorkerEnd

SpecCollector == CollectorInit /\ [][CollectorNext]_vars

(* C40: while a worker started by on_go is running, no second worker is    *)
(* started by a click on GO or by the Enter key; and when a worker ends,   *)
(* done or raised, the GO button is enabled again.                         *)
C40_SingleRun ==
    [][run.app = "collector"
       => /\ RunningWorkers(app') \ RunningWorkers(app) # {}
             => RunningWorkers(app) = {}
          /\ RunningWorkers(app) \ RunningWorkers(app') # {}
             => app'.go_btn = "normal"]_vars

====
